---- MODULE Spec2Model ----
(***************************************************************************)
(* Model of the file-icons package's icon resolution engine:               *)
(*   - StrategyManager (lib/storage.js, second half): strategy loading,    *)
(*     ordering and the query pipeline;                                    *)
(*   - Storage (lib/storage.js, first half): the session cache kept in an  *)
(*     LRU map, its lock, serialisation and clean-up;                      *)
(*   - IconTables (lib/core/icon-tables.js): the match operations and      *)
(*     their caches;                                                       *)
(*   - HashbangStrategy (lib/service/strategies/hashbang-strategy.js) and  *)
(*     ModelineStrategy (lib/core/strategies/modeline-strategy.js);        *)
(*   - FileIcons (lib/main.js): activation, deactivation and the public    *)
(*     calls of the package;                                               *)
(*   - IconNode (lib/service/icon-node.js): the icon classes of an element.*)
(***************************************************************************)
EXTENDS Integers, Sequences, FiniteSets, TLC

VARIABLES
    \* ---- StrategyManager ----
    declared,             \* what each strategy class declares (priority, flags)
    fileStrategies,       \* StrategyManager.fileStrategies (JS array, may be sparse)
    directoryStrategies,  \* StrategyManager.directoryStrategies
    isReady,              \* StrategyManager.isReady
    enabled,              \* strategy.enabled, per strategy
    event,                \* the last call made on the manager
    log,                  \* check() invocations of the last query, in order
    \* ---- Storage ----
    paths,                \* Storage.data.paths: the LRU map, most recent first
    locked,               \* Storage.locked
    rootDirectories,      \* atom.project.rootDirectories, as their paths
    call,                 \* the last call made on the storage, with its result
    \* ---- IconTables ----
    tableCache,           \* IconTables.cache: one map per name of the cache
    binaryIcon,           \* IconTables.binaryIcon
    executableIcon,       \* IconTables.executableIcon
    matched,              \* the last match call made on the tables
    \* ---- HashbangStrategy and the resource it is asked about ----
    rsrc,                 \* the resource: data, name, executable, icon, listeners
    asked,                \* the last call made on the strategy or the resource
    \* ---- FileIcons, the package object ----
    FileIcons,            \* its properties, and where activate or deactivate stands
    api,                  \* the last call made on the package, with its result
    \* ---- IconNode, the element it draws on and what it reads ----
    node,                 \* the IconNode last constructed, if any, and its resource
    classList,            \* element.classList of the element handed to the nodes
    config,               \* FileIcons.ui and the tabPaneIcon setting
    drawn                 \* the last call made on the node, with its result

managerVars == <<declared, fileStrategies, directoryStrategies, isReady,
                 enabled, event, log>>

storageVars == <<paths, locked, rootDirectories, call>>

tableVars == <<tableCache, binaryIcon, executableIcon, matched>>

headerVars == <<rsrc, asked>>

packageVars == <<FileIcons, api>>

nodeVars == <<node, classList, config, drawn>>

vars == <<managerVars, storageVars, tableVars, headerVars, packageVars, nodeVars>>

\* What a call on one component leaves alone.
exceptManager == <<storageVars, tableVars, headerVars, packageVars, nodeVars>>
exceptStorage == <<managerVars, tableVars, headerVars, packageVars, nodeVars>>
exceptTables == <<managerVars, storageVars, headerVars, packageVars, nodeVars>>

\* Among strategy names: an empty array slot, and "no strategy".
Hole == "<empty slot>"
None == "<none>"

(***************************************************************************)
(* Strategies                                                              *)
(***************************************************************************)

\* The paths handed to loadStrategies, in order.
LoadOrder ==
    << "signature", "hashbangs", "modelines", "linguist",
       "usertypes", "grammar", "path" >>

Strategies == {LoadOrder[i] : i \in 1..Len(LoadOrder)}

\* The strategy classes whose source declares their priority.
SignatureStrategyTopSlot == [priority |-> 7, matchesFiles |-> TRUE, matchesDirs |-> FALSE, noSetting |-> FALSE]
SignatureStrategy == [priority |-> 0, matchesFiles |-> TRUE, matchesDirs |-> FALSE, noSetting |-> FALSE]
HashbangStrategy  == [priority |-> 5, matchesFiles |-> TRUE, matchesDirs |-> FALSE, noSetting |-> FALSE]
ModelineStrategy  == [priority |-> 6, matchesFiles |-> TRUE, matchesDirs |-> FALSE, noSetting |-> FALSE]

\* Declarations of the four strategy classes whose files are not available:
\* drawn from a few profiles, with and without strategies sharing a slot.
Decl(p, d, n) == [priority |-> p, matchesFiles |-> TRUE, matchesDirs |-> d, noSetting |-> n]

OtherStrategies ==
    { [linguist |-> Decl(4, FALSE, FALSE), usertypes |-> Decl(3, FALSE, FALSE),
       grammar  |-> Decl(2, FALSE, FALSE), path      |-> Decl(1, TRUE, TRUE)],
      [linguist |-> Decl(1, TRUE, FALSE),  usertypes |-> Decl(2, TRUE, FALSE),
       grammar  |-> Decl(3, FALSE, FALSE), path      |-> Decl(4, TRUE, TRUE)],
      [linguist |-> Decl(5, FALSE, FALSE), usertypes |-> Decl(3, TRUE, FALSE),
       grammar  |-> Decl(3, TRUE, FALSE),  path      |-> Decl(2, TRUE, TRUE)] }

Declarations ==
    { [s \in Strategies |->
          CASE s = "signature" -> SignatureStrategy
            [] s = "hashbangs" -> HashbangStrategy
            [] s = "modelines" -> ModelineStrategy
            [] OTHER           -> o[s]] : o \in OtherStrategies }

\* arr[i] = v on a JS array (0-based), which grows with holes as needed.
ArraySet(arr, i, v) ==
    IF i + 1 <= Len(arr) THEN [arr EXCEPT ![i + 1] = v]
    ELSE arr \o [k \in 1..(i - Len(arr)) |-> Hole] \o <<v>>

Reverse(seq) == [k \in 1..Len(seq) |-> seq[Len(seq) + 1 - k]]

IsStrategy(x) == x # Hole

\* StrategyManager.loadStrategy: the lists and the enabled flags after one load.
\* atom.config.observe calls back at once with the setting's current value.
loadStrategy(m, name, setting) ==
    LET strategy == m.declared[name]
        priority == strategy.priority
    IN  [ declared |-> m.declared,
          files    |-> IF strategy.matchesFiles
                       THEN ArraySet(m.files, priority, name) ELSE m.files,
          dirs     |-> IF strategy.matchesDirs
                       THEN ArraySet(m.dirs, priority, name) ELSE m.dirs,
          enabled  |-> [m.enabled EXCEPT ![name] =
                          IF strategy.noSetting THEN TRUE ELSE setting[name]] ]

\* paths.map(path => this.loadStrategy(path)): the loads, one after another.
RECURSIVE loadAll(_, _, _)
loadAll(m, i, setting) ==
    IF i > Len(LoadOrder) THEN m
    ELSE CHOOSE r \in { loadAll(next, i + 1, setting) :
                           next \in {loadStrategy(m, LoadOrder[i], setting)} } : TRUE

\* At most this many strategy settings are switched off at a time.
MaxDisabled == 2

Disabled(en) == {s \in Strategies : ~en[s]}

\* The StrategyManager constructor: every strategy loaded, lists not yet sorted.
ManagerInit ==
    \E d \in Declarations, setting \in [Strategies -> BOOLEAN] :
      \E m \in { loadAll([declared |-> d, files |-> <<>>, dirs |-> <<>>,
                           enabled |-> [s \in Strategies |-> FALSE]], 1, setting) } :
            /\ Cardinality(Disabled(m.enabled)) <= MaxDisabled
            /\ declared = d
            /\ fileStrategies = m.files
            /\ directoryStrategies = m.dirs
            /\ enabled = m.enabled
            /\ isReady = FALSE
            /\ event = [type |-> "new"]
            /\ log = <<>>

loadStrategiesUnreversed ==
    /\ ~isReady
    /\ fileStrategies' = SelectSeq(fileStrategies, IsStrategy)
    /\ directoryStrategies' = SelectSeq(directoryStrategies, IsStrategy)
    /\ isReady' = TRUE
    /\ UNCHANGED <<declared, enabled, event, log>>
    /\ UNCHANGED exceptManager

\* The rest of loadStrategies, after the loads: compact, reverse, ready.
loadStrategies ==
    /\ ~isReady
    /\ fileStrategies' = Reverse(SelectSeq(fileStrategies, IsStrategy))
    /\ directoryStrategies' = Reverse(SelectSeq(directoryStrategies, IsStrategy))
    /\ isReady' = TRUE
    /\ UNCHANGED <<declared, enabled, event, log>>
    /\ UNCHANGED exceptManager

\* The observer of a strategy's setting: enable() or disable().
ConfigChange(name, value) ==
    /\ ~declared[name].noSetting
    /\ enabled[name] # value
    /\ value \/ Cardinality(Disabled(enabled)) < MaxDisabled
    /\ enabled' = [enabled EXCEPT ![name] = value]
    /\ event' = [type |-> "config", name |-> name, value |-> value]
    /\ UNCHANGED <<declared, fileStrategies, directoryStrategies, isReady, log>>
    /\ UNCHANGED exceptManager

\* A resource: its kind and the strategies whose check would commit an icon.
MaxCommitters == 2

Resources ==
    { [isDirectory |-> d, commits |-> c] :
        d \in BOOLEAN,
        c \in {x \in SUBSET Strategies : Cardinality(x) <= MaxCommitters} }

\* Strategy.check: truthy when the strategy commits an icon to the resource.
check(strategy, resource) == strategy \in resource.commits

RECURSIVE queryLoopNoBreak(_, _, _)
queryLoopNoBreak(strategies, i, resource) ==
    IF i > Len(strategies) THEN <<>>
    ELSE LET strategy == strategies[i] IN
         IF ~enabled[strategy] THEN queryLoopNoBreak(strategies, i + 1, resource)
         ELSE << [strategy |-> strategy, shouldStop |-> check(strategy, resource)] >>
                 \o queryLoopNoBreak(strategies, i + 1, resource)

RECURSIVE queryLoopBreakOnDisabled(_, _, _)
queryLoopBreakOnDisabled(strategies, i, resource) ==
    IF i > Len(strategies) THEN <<>>
    ELSE LET strategy == strategies[i] IN
         IF ~enabled[strategy] THEN <<>>
         ELSE LET shouldStop == check(strategy, resource) IN
              << [strategy |-> strategy, shouldStop |-> shouldStop] >>
                 \o (IF shouldStop THEN <<>>
                     ELSE queryLoopBreakOnDisabled(strategies, i + 1, resource))

\* The loop of StrategyManager.query, from position i of the list.
RECURSIVE queryLoop(_, _, _)
queryLoop(strategies, i, resource) ==
    IF i > Len(strategies) THEN <<>>
    ELSE LET strategy == strategies[i] IN
         IF ~enabled[strategy] THEN queryLoop(strategies, i + 1, resource)
         ELSE LET shouldStop == check(strategy, resource) IN
              << [strategy |-> strategy, shouldStop |-> shouldStop] >>
                 \o (IF shouldStop THEN <<>>
                     ELSE queryLoop(strategies, i + 1, resource))

StrategiesFor(resource) ==
    IF resource.isDirectory THEN directoryStrategies ELSE fileStrategies

Checked(l) == {l[i].strategy : i \in 1..Len(l)}

\* The strategy that the previous query consulted and whose setting was
\* switched off since (None when there is none): kept with the next query.
DisabledSince ==
    IF event.type = "config" /\ ~event.value /\ event.name \in Checked(log)
    THEN event.name ELSE None

\* StrategyManager.query(resource), called once the manager is ready.
query(resource) ==
    /\ isReady
    /\ event' = [type |-> "query", isDirectory |-> resource.isDirectory,
                  disabledBefore |-> DisabledSince]
    /\ log' = queryLoop(StrategiesFor(resource), 1, resource)
    /\ UNCHANGED <<declared, fileStrategies, directoryStrategies, isReady, enabled>>
    /\ UNCHANGED exceptManager

(***************************************************************************)
(* Storage: the session cache                                              *)
(* JS values are records tagged with their type, so that any two compare.  *)
(***************************************************************************)

Null == [type |-> "null"]
Undefined == [type |-> "undefined"]
Number(n) == [type |-> "number", n |-> n]
TypeError == [type |-> "TypeError"]
ReferenceError == [type |-> "ReferenceError"]
Boolean(b) == [type |-> "boolean", value |-> b]
String(s) == [type |-> "string", value |-> s]

Truthy(x) == x \notin {Null, Undefined, Number(0), Boolean(FALSE), String("")}

\* path.sep and the platform test
sep == "/"
isWin == sep = "\\"

\* The paths that are cached, and the project roots.
Paths == {"/a/x", "/ab", "/b"}
RootA == "/a"
RootB == "/b"

\* The sets of project roots that are open at one time or another.
ProjectPaths == {{RootB}, {RootA, RootB}}

\* A string as the sequence of its characters.
Chars(string) ==
    CASE string = "/a/x" -> << "/", "a", "/", "x" >>
      [] string = "/ab"  -> << "/", "a", "b" >>
      [] string = "/a"   -> << "/", "a" >>
      [] string = "/b"   -> << "/", "b" >>
      [] string = "#!/opt/zz\nx" -> << "#", "!", "/", "o", "p", "t", "/", "z", "z", "\n", "x" >>
      [] string = "#!/b/env zz" -> << "#", "!", "/", "b", "/", "e", "n", "v", " ", "z", "z" >>
      [] string = "#!/b/sh" -> << "#", "!", "/", "b", "/", "s", "h" >>
      [] string = "#!/b/env node" -> << "#", "!", "/", "b", "/", "e", "n", "v", " ", "n", "o", "d", "e" >>
      [] string = "hi" -> << "h", "i" >>
      [] string = "run" -> << "r", "u", "n" >>
      [] string = "a.TS" -> << "a", ".", "T", "S" >>
      [] string = "#!/b/node" -> << "#", "!", "/", "b", "/", "n", "o", "d", "e" >>
      [] string = "b.tsx" -> << "b", ".", "t", "s", "x" >>
      [] string = "-*- mode: fundamental -*-" ->
            << "-", "*", "-", " ", "m", "o", "d", "e", ":", " ", "f", "u", "n", "d", "a", "m", "e", "n", "t", "a", "l", " ", "-", "*", "-" >>
      [] string = "-*- mode: Shell -*-" ->
            << "-", "*", "-", " ", "m", "o", "d", "e", ":", " ", "S", "h", "e", "l", "l", " ", "-", "*", "-" >>
      [] string = "-*- mode: zz -*-" ->
            << "-", "*", "-", " ", "m", "o", "d", "e", ":", " ", "z", "z", " ", "-", "*", "-" >>
      [] string = "-*- Assembly -*-" ->
            << "-", "*", "-", " ", "A", "s", "s", "e", "m", "b", "l", "y", " ", "-", "*", "-" >>
      [] string = "-*- mode: fundamental -*- vim: ft=Shell" ->
            << "-", "*", "-", " ", "m", "o", "d", "e", ":", " ", "f", "u", "n", "d", "a", "m", "e", "n", "t", "a", "l", " ", "-", "*", "-", " ", "v", "i", "m", ":", " ", "f", "t", "=", "S", "h", "e", "l", "l" >>
      [] string = "vim: ft=Assembly" ->
            << "v", "i", "m", ":", " ", "f", "t", "=", "A", "s", "s", "e", "m", "b", "l", "y" >>

\* 0 === path.indexOf(prefix), on characters
StartsWith(path, prefix) ==
    /\ Len(prefix) <= Len(path)
    /\ SubSeq(path, 1, Len(prefix)) = prefix

\* AtomFS.normalisePath: backslashes become forward slashes.
normalisePath(path) ==
    [i \in 1..Len(path) |-> IF path[i] = "\\" THEN "/" ELSE path[i]]

isProjectRelatedAnyPrefix(path, roots) ==
    \E root \in roots : StartsWith(Chars(path), Chars(root))

\* Storage.isProjectRelated
isProjectRelated(path, roots) ==
    \E root \in roots :
        LET projectPath == Chars(root) IN
        \/ Chars(path) = projectPath
        \/ StartsWith(Chars(path), projectPath \o <<sep>>)
        \/ /\ isWin
           /\ LET fixedPath == normalisePath(projectPath)
              IN  Chars(path) = fixedPath \/ StartsWith(Chars(path), fixedPath \o <<"/">>)

\* The values the callers store.
\* The inodes a path has had on disk: /a/x was replaced by another file once.
Inodes(path) ==
    CASE path = "/a/x" -> {Number(5), Number(9)}
      [] path = "/ab"  -> {Number(6)}
      [] path = "/b"   -> {Number(7)}
IconData == { [type |-> "object", priority |-> 1, index |-> 7, iconClass |-> "js-icon"] }
StoredIcon(iconData) ==
    [type |-> "array", e0 |-> iconData.priority, e1 |-> iconData.index,
     e2 |-> iconData.iconClass]

BlankEntry == [icon |-> Null, inode |-> Null]

\* The capacity given to the map (options.maxSize), and the format version.
MaxSize == 2
Version == 5

\* ---- lru-cache: a list of hits {k, v}, most recently used first ----

IndexOf(cache, key) ==
    IF \E i \in 1..Len(cache) : cache[i].k = key
    THEN CHOOSE i \in 1..Len(cache) : cache[i].k = key
    ELSE 0

Without(cache, i) == SubSeq(cache, 1, i - 1) \o SubSeq(cache, i + 1, Len(cache))

Trim(cache, max) == IF Len(cache) > max THEN SubSeq(cache, 1, max) ELSE cache

Keys(cache) == {cache[i].k : i \in 1..Len(cache)}

\* peek: the value or undefined, recency untouched
LRUPeek(cache, key) ==
    IF IndexOf(cache, key) = 0 THEN Undefined ELSE cache[IndexOf(cache, key)].v

\* get: the hit moves to the front
LRUGet(cache, key) ==
    LET i == IndexOf(cache, key)
    IN  IF i = 0 THEN [value |-> Undefined, cache |-> cache]
        ELSE [value |-> cache[i].v, cache |-> <<cache[i]>> \o Without(cache, i)]

\* set: the hit is put at the front; the tail is dropped beyond max
LRUSet(cache, key, value, max) ==
    LET i == IndexOf(cache, key)
    IN  Trim(<<[k |-> key, v |-> value]>> \o (IF i = 0 THEN cache ELSE Without(cache, i)),
             max)

LRUDel(cache, key) ==
    LET i == IndexOf(cache, key)
    IN  IF i = 0 THEN cache ELSE Without(cache, i)

\* entry.field = value on the object held for key (recency untouched)
Mutate(cache, key, entry) ==
    [i \in 1..Len(cache) |->
        IF cache[i].k = key THEN [k |-> key, v |-> entry] ELSE cache[i]]

\* dump: hits that never expire carry e = 0
LRUDump(cache) ==
    [i \in 1..Len(cache) |-> [k |-> cache[i].k, v |-> cache[i].v, e |-> 0]]

\* load: reset, then set from the last hit of the dump to the first
RECURSIVE LRULoadFrom(_, _, _, _)
LRULoadFrom(cache, arr, l, max) ==
    IF l < 1 THEN cache
    ELSE CHOOSE r \in { LRULoadFrom(next, arr, l - 1, max) :
                          next \in {IF arr[l].e = 0
                                    THEN LRUSet(cache, arr[l].k, arr[l].v, max)
                                    ELSE cache} } : TRUE

LRULoad(arr, max) == LRULoadFrom(<<>>, arr, Len(arr), max)

\* ---- Storage methods: the map and the returned value after the call ----

Result(cache, ret) == [paths |-> cache, ret |-> ret]

addPathUncapped(cache, lk, path) ==
    IF lk THEN Result(cache, Undefined)
    ELSE Result(LRUSet(cache, path, BlankEntry, MaxSize + Cardinality(Paths)), BlankEntry)

\* Storage.addPath
addPath(cache, lk, path) ==
    IF lk THEN Result(cache, Undefined)
    ELSE Result(LRUSet(cache, path, BlankEntry, MaxSize), BlankEntry)

getPathEntryIgnoringLock(cache, lk, path) ==
    LET got == LRUGet(cache, path)
    IN  IF got.value # Undefined THEN Result(got.cache, got.value)
        ELSE Result(LRUSet(got.cache, path, BlankEntry, MaxSize), BlankEntry)

\* Storage.getPathEntry
getPathEntry(cache, lk, path) ==
    LET got == LRUGet(cache, path)
    IN  IF got.value # Undefined THEN Result(got.cache, got.value)
        ELSE IF lk THEN Result(got.cache, Null)
        ELSE addPath(got.cache, lk, path)

\* Storage.getPathIcon: destructuring null raises
getPathIcon(cache, lk, path) ==
    LET e == getPathEntry(cache, lk, path)
    IN  IF e.ret = Null THEN Result(e.paths, TypeError)
        ELSE IF ~Truthy(e.ret.icon) THEN Result(e.paths, Null)
        ELSE Result(e.paths, [type |-> "object", priority |-> e.ret.icon.e0,
                              index |-> e.ret.icon.e1, iconClass |-> e.ret.icon.e2])

\* Storage.hasData
hasData(cache, path) ==
    LET got == LRUGet(cache, path)
    IN  Result(got.cache,
               got.value # Undefined /\ (Truthy(got.value.icon) \/ Truthy(got.value.inode)))

\* Storage.hasIcon
hasIcon(cache, path) ==
    LET got == LRUGet(cache, path)
    IN  Result(got.cache, got.value # Undefined /\ Truthy(got.value.icon))

\* Storage.setPathIcon
setPathIcon(cache, lk, path, iconData) ==
    IF ~Truthy(iconData) \/ lk THEN Result(cache, Undefined)
    ELSE LET e == getPathEntry(cache, lk, path)
         IN  Result(Mutate(e.paths, path, [e.ret EXCEPT !.icon = StoredIcon(iconData)]),
                    Undefined)

deletePathUnguarded(cache, lk, path) == LRUDel(cache, path)

\* Storage.deletePath
deletePath(cache, lk, path) ==
    IF lk THEN cache ELSE LRUDel(cache, path)

setPathInodeKeepingEntry(cache, lk, path, inode) ==
    IF ~Truthy(inode) \/ lk THEN Result(cache, Undefined)
    ELSE LET e == getPathEntry(cache, lk, path)
         IN  Result(Mutate(e.paths, path, [e.ret EXCEPT !.inode = inode]), Undefined)

\* Storage.setPathInode
setPathInode(cache, lk, path, inode) ==
    IF ~Truthy(inode) \/ lk THEN Result(cache, Undefined)
    ELSE LET e == getPathEntry(cache, lk, path)
         IN  IF Truthy(e.ret.inode) /\ e.ret.inode # inode
             THEN LET a == addPath(deletePath(e.paths, lk, path), lk, path)
                  IN  Result(Mutate(a.paths, path, [a.ret EXCEPT !.inode = inode]),
                             Undefined)
             ELSE Result(Mutate(e.paths, path, [e.ret EXCEPT !.inode = inode]),
                         Undefined)

\* Storage.deletePathIcon. delete leaves the entry without an icon property;
\* every reader tests the icon for truthiness only, and the model keeps null.
deletePathIcon(cache, lk, path) ==
    IF lk THEN Result(cache, Undefined)
    ELSE LET e == getPathEntry(cache, lk, path)
         IN  Result(Mutate(e.paths, path, [e.ret EXCEPT !.icon = Null]), Undefined)

\* The callback of clean, for one path of the map.
cleanStep(cache, lk, roots, path) ==
    LET has == hasData(cache, path)
    IN  IF ~has.ret \/ ~isProjectRelated(path, roots)
        THEN deletePath(has.paths, lk, path)
        ELSE has.paths

\* forEach walks the hits as they were linked when each was reached: the
\* callback moves or removes only the hit it is given.
RECURSIVE cleanWalk(_, _, _, _, _)
cleanWalk(cache, lk, roots, walk, i) ==
    IF i > Len(walk) THEN cache
    ELSE CHOOSE r \in { cleanWalk(next, lk, roots, walk, i + 1) :
                          next \in {cleanStep(cache, lk, roots, walk[i].k)} } : TRUE

\* Storage.clean
clean(cache, lk, roots) == cleanWalk(cache, lk, roots, cache, 1)

\* Storage.serialise: Storage has no version property of its own
serialise(cache) == [paths |-> LRUDump(cache), version |-> Undefined]

StorageAnyVersion(state, roots) ==
    IF state # Null
    THEN clean(LRULoad(state.paths, MaxSize), FALSE, roots)
    ELSE <<>>

\* The Storage constructor: the map of the new storage
Storage(state, roots) ==
    IF state # Null /\ Number(Version) = state.version
    THEN clean(LRULoad(state.paths, MaxSize), FALSE, roots)
    ELSE <<>>

\* Storage.size
size(cache) == Len(cache)

\* ---- Storage: one action per call ----

NoPath == ""

\* before: what the map held for the path before the call (undefined if
\* nothing); dropped: the paths that were in the map before and not after.
Call(op, path, arg, ret, before, dropped) ==
    [op |-> op, path |-> path, arg |-> arg, ret |-> ret,
     before |-> before, dropped |-> dropped]

\* A call on the storage that leaves the map as res.paths and returns res.ret.
Calls(op, path, arg, res) ==
    /\ paths' = res.paths
    /\ call' = Call(op, path, arg, res.ret, LRUPeek(paths, path),
                    Keys(paths) \ Keys(res.paths))
    /\ UNCHANGED <<locked, rootDirectories>>

\* The first session starts without serialised state.
StorageInit ==
    /\ paths = Storage(Null, {})
    /\ locked = FALSE
    /\ rootDirectories \in ProjectPaths
    /\ call = Call("new Storage", NoPath,
                   [state |-> "null", version |-> Undefined, held |-> 0],
                   Undefined, Undefined, {})

AddPath(path) ==
    \E res \in {addPath(paths, locked, path)} :
        /\ Calls("addPath", path, Undefined, res)
        /\ UNCHANGED exceptStorage

GetPathEntry(path) ==
    \E res \in {getPathEntry(paths, locked, path)} :
        /\ Calls("getPathEntry", path, Undefined, res)
        /\ UNCHANGED exceptStorage

GetPathIcon(path) ==
    \E res \in {getPathIcon(paths, locked, path)} :
        /\ Calls("getPathIcon", path, Undefined, res)
        /\ UNCHANGED exceptStorage

HasData(path) ==
    \E res \in {hasData(paths, path)} :
        /\ Calls("hasData", path, Undefined, Result(res.paths, Boolean(res.ret)))
        /\ UNCHANGED exceptStorage

HasIcon(path) ==
    \E res \in {hasIcon(paths, path)} :
        /\ Calls("hasIcon", path, Undefined, Result(res.paths, Boolean(res.ret)))
        /\ UNCHANGED exceptStorage

SetPathIcon(path, iconData) ==
    \E res \in {setPathIcon(paths, locked, path, iconData)} :
        /\ Calls("setPathIcon", path, iconData, res)
        /\ UNCHANGED exceptStorage

SetPathInode(path, inode) ==
    \E res \in {setPathInode(paths, locked, path, inode)} :
        /\ Calls("setPathInode", path, inode, res)
        /\ UNCHANGED exceptStorage

DeletePath(path) ==
    \E cache \in {deletePath(paths, locked, path)} :
        /\ Calls("deletePath", path, Undefined, Result(cache, Undefined))
        /\ UNCHANGED exceptStorage

DeletePathIcon(path) ==
    \E res \in {deletePathIcon(paths, locked, path)} :
        /\ Calls("deletePathIcon", path, Undefined, res)
        /\ UNCHANGED exceptStorage

Clean ==
    \E cache \in {clean(paths, locked, rootDirectories)} :
        /\ Calls("clean", NoPath, Undefined, Result(cache, Undefined))
        /\ UNCHANGED exceptStorage

Serialise ==
    /\ Calls("serialise", NoPath, Undefined, Result(paths, serialise(paths)))
    /\ UNCHANGED exceptStorage

\* FileIcons.serialize calls storage.serialize, which Storage does not define.
FileIconsSerialize ==
    /\ Calls("FileIcons.serialize", NoPath, Undefined, Result(paths, TypeError))
    /\ UNCHANGED exceptStorage

\* FileIcons.deactivate locks the storage.
Deactivate ==
    /\ ~locked
    /\ locked' = TRUE
    /\ call' = Call("deactivate", NoPath, Undefined, Undefined, Undefined, {})
    /\ UNCHANGED <<paths, rootDirectories>>
    /\ UNCHANGED exceptStorage

\* atom.project's roots change. The one listener in these sources,
\* UI.setProjects, stores the new list in UI.projects and emits the UI's own
\* events; nothing it does reaches the storage.
SetProjectPaths(roots) ==
    /\ roots # rootDirectories
    /\ rootDirectories' = roots
    /\ call' = Call("atom.project.setPaths", NoPath, Undefined, Undefined, Undefined, {})
    /\ UNCHANGED <<paths, locked>>
    /\ UNCHANGED exceptStorage

\* The events atom.project.onDidChangeFiles delivers in one batch: a path
\* deleted, created or modified, known or not to FileSystem.paths.
FileEvent(action, path, known) == [action |-> action, path |-> path, known |-> known]

FileEvents ==
    {FileEvent("deleted", path, TRUE) : path \in Paths}
        \cup {FileEvent("deleted", "/b", FALSE), FileEvent("modified", "/b", TRUE)}

EventBatches ==
    {<<e>> : e \in FileEvents}
        \cup {<<FileEvent("modified", "/b", TRUE), e>> : e \in FileEvents}

\* StrategyManager.handleResource: the class defines no such method.
handleResource == Undefined

\* FileIcons.setupStrategies: the arguments of disposables.add are evaluated
\* in order, and this.strategies.handleResource.bind raises when there is no
\* handleResource, before the file-change listener is registered.
setupStrategies ==
    IF handleResource = Undefined
    THEN [ret |-> TypeError, listening |-> FALSE]
    ELSE [ret |-> Undefined, listening |-> TRUE]

\* The first event of the batch that tells of a deleted path known to
\* FileSystem.paths, or 0.
FirstDeleted(events) ==
    LET hits == {i \in 1..Len(events) : events[i].action = "deleted" /\ events[i].known}
    IN  IF hits = {} THEN 0 ELSE CHOOSE i \in hits : \A j \in hits : i <= j

\* The listener setupStrategies would register. For a deleted path it
\* destroys the resource (which is not part of the storage) and evaluates
\* Storage.deletePath. Storage is a local of setupStorage, not a name in
\* this scope: that raises, which ends the loop and the listener.
RECURSIVE onDidChangeFilesFrom(_, _, _)
onDidChangeFilesFrom(cache, events, i) ==
    IF i > Len(events) THEN Result(cache, Undefined)
    ELSE IF events[i].action = "deleted" /\ events[i].known
         THEN Result(cache, ReferenceError)
         ELSE onDidChangeFilesFrom(cache, events, i + 1)

onDidChangeFiles(cache, events) == onDidChangeFilesFrom(cache, events, 1)

\* atom.project emits did-change-files: the listener runs if there is one.
\* The call is recorded with the first deleted path of the batch.
OnDidChangeFiles(events) ==
    \E res \in {IF setupStrategies.listening
                THEN onDidChangeFiles(paths, events)
                ELSE Result(paths, Undefined)} :
        \E at \in {FirstDeleted(events)} :
            /\ Calls("onDidChangeFiles",
                     IF at = 0 THEN NoPath ELSE events[at].path,
                     IF at = 0 THEN Undefined ELSE events[at],
                     res)
            /\ UNCHANGED exceptStorage

\* What a stored state holds that a restore has to bring back.
Restorable(cache, roots) ==
    { h \in {[k |-> cache[i].k, v |-> cache[i].v] : i \in 1..Len(cache)} :
        /\ Truthy(h.v.icon) \/ Truthy(h.v.inode)
        /\ isProjectRelated(h.k, roots) }

\* The state kept from the session before: none, what serialise returned,
\* or a state of that shape stored with a version number.
StoredVersions == {Number(Version), Number(Version - 1)}

SavedStates ==
    {Null, serialise(paths)}
        \cup {[serialise(paths) EXCEPT !.version = v] : v \in StoredVersions}

\* The state a Storage is constructed from, as the call records it.
Given(state) ==
    [state   |-> IF state = Null THEN "null"
                 ELSE IF state = serialise(paths) THEN "serialised"
                 ELSE "stored",
     version |-> IF state = Null THEN Undefined ELSE state.version,
     held    |-> IF state = Null THEN 0
                 ELSE Cardinality(Restorable(paths, rootDirectories))]

\* A new session: FileIcons.setupStorage constructs the Storage from state.
NewStorage(state) ==
    /\ paths' = Storage(state, rootDirectories)
    /\ locked' = FALSE
    /\ call' = Call("new Storage", NoPath, Given(state), Undefined, Undefined, {})
    /\ UNCHANGED rootDirectories
    /\ UNCHANGED exceptStorage

\* What can happen to the storage within one session.
SessionNext ==
    \/ \E path \in Paths : AddPath(path)
    \/ \E path \in Paths : GetPathEntry(path)
    \/ \E path \in Paths : GetPathIcon(path)
    \/ \E path \in Paths : HasData(path)
    \/ \E path \in Paths : HasIcon(path)
    \/ \E path \in Paths, iconData \in IconData \cup {Null} : SetPathIcon(path, iconData)
    \/ \E path \in Paths : \E inode \in Inodes(path) \cup {Null} : SetPathInode(path, inode)
    \/ \E path \in Paths : DeletePath(path)
    \/ \E path \in Paths : DeletePathIcon(path)
    \/ Clean
    \/ Serialise
    \/ FileIconsSerialize
    \/ Deactivate
    \/ \E roots \in ProjectPaths : SetProjectPaths(roots)
    \/ \E events \in EventBatches : OnDidChangeFiles(events)

\* Sessions follow one another: the package is activated again with a state.
StorageNext ==
    \/ SessionNext
    \/ \E state \in SavedStates : NewStorage(state)

(***************************************************************************)
(* IconTables                                                              *)
(***************************************************************************)

\* A regular expression, as far as the keys looked up here can tell: the
\* keys it accepts, or for a file signature the bytes the data starts with.
Accepts(keys) == [kind |-> "keys", keys |-> keys]
Prefix(bytes) == [kind |-> "prefix", bytes |-> bytes]

\* RegExp.prototype.test
Test(regex, key) ==
    IF regex.kind = "prefix" THEN StartsWith(key, regex.bytes)
    ELSE key \in regex.keys

\* The compiled tables: <<icons, indexes>>, the indexes being lists of
\* offsets into icons in the order byInterpreter, byLanguage, byPath, byScope,
\* bySignature. An icon has only the expressions of the indexes it is in.
Rule(match, interpreter, lang, scope, signature) ==
    [match |-> match, interpreter |-> interpreter, lang |-> lang,
     scope |-> scope, signature |-> signature]

NoRegex == Accepts({})

DirectoryTable ==
    << << Rule(Accepts({".git"}), NoRegex, NoRegex, NoRegex, NoRegex),
          Rule(Accepts({".git", "node_modules"}), NoRegex, NoRegex, NoRegex, NoRegex) >>,
       << <<>>, <<>>, <<1>>, <<>>, <<>> >> >>

FileTable ==
    << << Rule(Accepts({"a.asm"}), NoRegex, Accepts({"Assembly"}),
               Accepts({"source.asm", "source.shell"}), NoRegex),
          Rule(Accepts({"a.sh", "Makefile"}), Accepts({"bash", "sh"}),
               Accepts({"Shell"}), Accepts({"source.shell"}), NoRegex),
          Rule(Accepts({"Makefile"}), Accepts({"make", "sh", "node"}),
               Accepts({"Makefile", "Shell"}), NoRegex, NoRegex),
          Rule(Accepts({"a.bin"}), NoRegex, NoRegex, NoRegex, Prefix(<<80>>)),
          Rule(Accepts({"a.zip"}), NoRegex, NoRegex, NoRegex, Prefix(<<80, 75>>)) >>,
       << <<2, 1>>, <<2, 1, 0>>, <<2, 1>>, <<1, 0>>, <<4, 3>> >> >>

\* new Icon(offset, ...i): one object per rule of one table.
Icon(table, offset, rule) ==
    [type |-> "Icon", table |-> table, index |-> offset, match |-> rule.match,
     interpreter |-> rule.interpreter, lang |-> rule.lang, scope |-> rule.scope,
     signature |-> rule.signature]

\* IconTables.read
read(name, table) ==
    LET icons == [i \in 1..Len(table[1]) |-> Icon(name, i - 1, table[1][i])]
        indexes == [n \in 1..Len(table[2]) |->
                       [i \in 1..Len(table[2][n]) |-> icons[table[2][n][i] + 1]]]
    IN  [byName |-> icons, byInterpreter |-> indexes[1], byLanguage |-> indexes[2],
         byPath |-> indexes[3], byScope |-> indexes[4], bySignature |-> indexes[5]]

directoryIcons == read("directory", DirectoryTable)
fileIcons == read("file", FileTable)

\* Map.prototype.get and set
MapGet(map, key) == IF key \in DOMAIN map THEN map[key] ELSE Undefined
MapSet(map, key, value) ==
    [k \in DOMAIN map \cup {key} |-> IF k = key THEN value ELSE map[k]]
EmptyMap == [k \in {} |-> Null]

EmptyCache ==
    [directoryName |-> EmptyMap, directoryPath |-> EmptyMap, fileName |-> EmptyMap,
     filePath |-> EmptyMap, interpreter |-> EmptyMap, scope |-> EmptyMap,
     language |-> EmptyMap, signature |-> EmptyMap]

Matched(c, ret) == [cache |-> c, ret |-> ret]

\* for(const icon of icons) if(icon[field].test(key)): where the loop
\* stops, or 0 if it runs to the end.
LastAccepting(icons, field, key) ==
    LET hits == {i \in 1..Len(icons) : Test(icons[i][field], key)}
    IN  IF hits = {} THEN 0 ELSE CHOOSE i \in hits : \A j \in hits : j <= i

FirstAccepting(icons, field, key) ==
    LET hits == {i \in 1..Len(icons) : Test(icons[i][field], key)}
    IN  IF hits = {} THEN 0 ELSE CHOOSE i \in hits : \A j \in hits : i <= j

\* The body the match methods share: the cached icon if the map has one,
\* else the first accepting icon, which is stored, else null.
lookup(c, map, icons, field, key) ==
    LET cached == MapGet(c[map], key)
        i == FirstAccepting(icons, field, key)
    IN  IF Truthy(cached) THEN Matched(c, cached)
        ELSE IF i # 0
        THEN Matched([c EXCEPT ![map] = MapSet(@, key, icons[i])], icons[i])
        ELSE Matched(c, Null)

\* IconTables.matchName
matchName(c, name, directory) ==
    IF directory
    THEN lookup(c, "directoryName", directoryIcons.byName, "match", name)
    ELSE lookup(c, "fileName", fileIcons.byName, "match", name)

\* IconTables.matchPath: it reads and writes the maps of matchName
matchPath(c, path, directory) ==
    IF directory
    THEN lookup(c, "directoryName", directoryIcons.byPath, "match", path)
    ELSE lookup(c, "fileName", fileIcons.byPath, "match", path)

\* IconTables.matchLanguage
matchLanguage(c, name) == lookup(c, "language", fileIcons.byLanguage, "lang", name)

\* IconTables.matchScope
matchScope(c, name) == lookup(c, "scope", fileIcons.byScope, "scope", name)

\* IconTables.matchInterpreter
matchInterpreter(c, name) ==
    lookup(c, "interpreter", fileIcons.byInterpreter, "interpreter", name)

\* /\0/.test(data)
HasNullByte(data) == \E i \in 1..Len(data) : data[i] = 0

matchSignatureNullByteFirst(c, binary, data) ==
    LET cached == MapGet(c.signature, data)
    IN  IF Truthy(cached) THEN Matched(c, cached)
        ELSE IF HasNullByte(data)
        THEN Matched([c EXCEPT !.signature = MapSet(@, data, binary)], binary)
        ELSE lookup(c, "signature", fileIcons.bySignature, "signature", data)

\* IconTables.matchSignature
matchSignature(c, binary, data) ==
    LET found == lookup(c, "signature", fileIcons.bySignature, "signature", data)
    IN  IF found.ret # Null THEN found
        ELSE IF HasNullByte(data)
        THEN Matched([c EXCEPT !.signature = MapSet(@, data, binary)], binary)
        ELSE Matched(c, Null)

\* The IconTables constructor: the two lookups it makes fill the maps.
IconTables ==
    LET binary == matchScope(EmptyCache, "source.asm")
        executable == matchInterpreter(binary.cache, "bash")
    IN  [cache |-> executable.cache, binaryIcon |-> binary.ret,
         executableIcon |-> executable.ret]

\* ---- IconTables: one action per call ----

NameKeys == {"Makefile", "a.sh", ".git", "zz"}
LanguageKeys == {"Shell", "Assembly", "zz"}
ScopeKeys == {"source.shell", "source.asm", "zz"}
InterpreterKeys == {"sh", "bash", "zz"}
\* File headers: a zip archive, text, bytes with a null byte that no
\* signature accepts, and a text that a signature accepts.
Buffers == { <<80, 75, 0>>, <<104, 105>>, <<0, 1>>, <<80, 33>> }

NoData == <<>>

MatchCall(op, key, data, directory, ret) ==
    [op |-> op, key |-> key, data |-> data, directory |-> directory, ret |-> ret]

TablesInit ==
    /\ tableCache = IconTables.cache
    /\ binaryIcon = IconTables.binaryIcon
    /\ executableIcon = IconTables.executableIcon
    /\ matched = MatchCall("new IconTables", "", NoData, FALSE, Undefined)

Matches(op, key, data, directory, res) ==
    /\ tableCache' = res.cache
    /\ matched' = MatchCall(op, key, data, directory, res.ret)
    /\ UNCHANGED <<binaryIcon, executableIcon>>
    /\ UNCHANGED exceptTables

MatchName(name, directory) ==
    \E res \in {matchName(tableCache, name, directory)} :
        Matches("matchName", name, NoData, directory, res)

MatchPath(path, directory) ==
    \E res \in {matchPath(tableCache, path, directory)} :
        Matches("matchPath", path, NoData, directory, res)

MatchLanguage(name) ==
    \E res \in {matchLanguage(tableCache, name)} :
        Matches("matchLanguage", name, NoData, FALSE, res)

MatchScope(name) ==
    \E res \in {matchScope(tableCache, name)} :
        Matches("matchScope", name, NoData, FALSE, res)

MatchInterpreter(name) ==
    \E res \in {matchInterpreter(tableCache, name)} :
        Matches("matchInterpreter", name, NoData, FALSE, res)

MatchSignature(data) ==
    \E res \in {matchSignature(tableCache, binaryIcon, data)} :
        Matches("matchSignature", "", data, FALSE, res)

TablesNext ==
    \/ \E name \in NameKeys, directory \in BOOLEAN : MatchName(name, directory)
    \/ \E path \in NameKeys, directory \in BOOLEAN : MatchPath(path, directory)
    \/ \E name \in LanguageKeys : MatchLanguage(name)
    \/ \E name \in ScopeKeys : MatchScope(name)
    \/ \E name \in InterpreterKeys : MatchInterpreter(name)
    \/ \E data \in Buffers : MatchSignature(data)

(***************************************************************************)
(* HashbangStrategy                                                        *)
(***************************************************************************)

\* The headers and names of the resources asked about. No header here has
\* a first word that ends in a slash, a VAR=value word or a perl directive.
Headers ==
    { String("#!/opt/zz\nx"), String("#!/b/env zz"), String("#!/b/sh"),
      String("#!/b/env node"), String("#!/b/node"), String("hi") }
ResourceNames == { "run", "a.TS", "b.tsx" }

\* String.prototype.toLowerCase, for the /i flag
ToLowerCase(chars) ==
    [i \in 1..Len(chars) |->
        CASE chars[i] = "T" -> "t"
          [] chars[i] = "S" -> "s"
          [] OTHER -> chars[i]]

\* The characters as a string again.
Str(chars) ==
    CASE chars = << "z", "z" >> -> "zz"
      [] chars = << "s", "h" >> -> "sh"
      [] chars = << "e", "n", "v" >> -> "env"
      [] chars = << "n", "o", "d", "e" >> -> "node"
      [] chars = <<>> -> ""
      [] chars = << "f", "u", "n", "d", "a", "m", "e", "n", "t", "a", "l" >> -> "fundamental"
      [] chars = << "S", "h", "e", "l", "l" >> -> "Shell"
      [] chars = << "A", "s", "s", "e", "m", "b", "l", "y" >> -> "Assembly"

Positions(chars, c) == {i \in 1..Len(chars) : chars[i] = c}
Least(S) == CHOOSE i \in S : \A j \in S : i <= j
Greatest(S) == CHOOSE i \in S : \A j \in S : j <= i

\* HeaderStrategy.getFirstLine: the text before the first line break
getFirstLine(data) ==
    LET breaks == Positions(data, "\n")
    IN  IF breaks = {} THEN data ELSE SubSeq(data, 1, Least(breaks) - 1)

\* The words of a line, split at single spaces.
RECURSIVE Words(_)
Words(line) ==
    LET spaces == Positions(line, " ")
    IN  IF spaces = {} THEN <<line>>
        ELSE <<SubSeq(line, 1, Least(spaces) - 1)>>
                 \o Words(SubSeq(line, Least(spaces) + 1, Len(line)))

\* String.prototype.split("/").pop()
LastSegment(chars) ==
    LET slashes == Positions(chars, "/")
    IN  IF slashes = {} THEN chars
        ELSE SubSeq(chars, Greatest(slashes) + 1, Len(chars))

\* line.match(pattern): tokens[1] is what follows the last slash of the
\* word after #!, tokens[2] the next word if there is one; null if the
\* line is no interpreter directive.
Tokenise(line) ==
    IF ~StartsWith(line, << "#", "!" >>) THEN Null
    ELSE LET words == Words(SubSeq(line, 3, Len(line)))
         IN  IF Positions(words[1], "/") = {} THEN Null
             ELSE [type |-> "match", t1 |-> LastSegment(words[1]),
                   t2 |-> IF Len(words) > 1 THEN words[2] ELSE <<>>]

\* /\.tsx?$/i.test(name)
EndsWith(chars, suffix) ==
    /\ Len(suffix) <= Len(chars)
    /\ SubSeq(chars, Len(chars) - Len(suffix) + 1, Len(chars)) = suffix

IsTypeScriptCaseSensitive(name) ==
    \/ EndsWith(Chars(name), << ".", "t", "s" >>)
    \/ EndsWith(Chars(name), << ".", "t", "s", "x" >>)

IsTypeScript(name) ==
    \/ EndsWith(ToLowerCase(Chars(name)), << ".", "t", "s" >>)
    \/ EndsWith(ToLowerCase(Chars(name)), << ".", "t", "s", "x" >>)

\* A listener registered with resource.onDidLoadStats.
Listener == [disposed |-> FALSE, fired |-> 0]

\* The most listeners registered on the resource before its stats arrive.
MaxListeners == 2

\* resource.icon.add(icon, priority)
IconAdd(icon, added, priority) == Append(icon, [icon |-> added, priority |-> priority])

onStatsKeepingListener(resource, i, execIcon) ==
    LET fired == [resource EXCEPT !.onStats[i].fired = @ + 1]
    IN  IF Truthy(fired.executable)
        THEN [fired EXCEPT !.icon = IconAdd(@, execIcon, HashbangStrategy.priority)]
        ELSE fired

\* The callback matchIcon registers, run for listener i of the resource: it
\* disposes of its registration, then adds the icon if the resource is
\* executable.
onStats(resource, i, execIcon) ==
    LET fired == [resource EXCEPT !.onStats[i].fired = @ + 1,
                                  !.onStats[i].disposed = TRUE]
    IN  IF Truthy(fired.executable)
        THEN [fired EXCEPT !.icon = IconAdd(@, execIcon, HashbangStrategy.priority)]
        ELSE fired

\* HashbangStrategy.matchIcon, with FileIcons.iconTables the tables above:
\* the tables' cache, the resource and the returned value after the call.
matchIcon(c, execIcon, resource) ==
    LET tokens == IF resource.data # Null
                  THEN Tokenise(getFirstLine(Chars(resource.data.value)))
                  ELSE Null
        name == IF tokens = Null THEN ""
                ELSE IF Str(tokens.t1) = "env" THEN Str(LastSegment(tokens.t2))
                ELSE Str(tokens.t1)
        result == matchInterpreter(c, name)
        same == [cache |-> c, rsrc |-> resource, ret |-> Null]
    IN  IF tokens = Null THEN same
        ELSE IF name = "node" /\ IsTypeScript(resource.name) THEN same
        ELSE IF Truthy(result.ret)
        THEN [cache |-> result.cache, rsrc |-> resource, ret |-> result.ret]
        ELSE IF resource.executable = Null
        THEN [cache |-> result.cache,
              rsrc |-> [resource EXCEPT !.onStats = Append(@, Listener)],
              ret |-> Null]
        ELSE IF Truthy(resource.executable)
        THEN [cache |-> result.cache, rsrc |-> resource, ret |-> execIcon]
        ELSE [cache |-> result.cache, rsrc |-> resource, ret |-> Null]

RECURSIVE emitDidLoadStatsWhileEnabled(_, _, _)
emitDidLoadStatsWhileEnabled(resource, i, execIcon) ==
    IF i > Len(resource.onStats) THEN resource
    ELSE CHOOSE r \in { emitDidLoadStatsWhileEnabled(next, i + 1, execIcon) :
                          next \in {IF \/ resource.onStats[i].disposed
                                       \/ ~enabled["hashbangs"]
                                    THEN resource
                                    ELSE onStats(resource, i, execIcon)} } : TRUE

\* The emitter of the resource runs the listeners still registered, in the
\* order they were registered.
RECURSIVE emitDidLoadStats(_, _, _)
emitDidLoadStats(resource, i, execIcon) ==
    IF i > Len(resource.onStats) THEN resource
    ELSE CHOOSE r \in { emitDidLoadStats(next, i + 1, execIcon) :
                          next \in {IF resource.onStats[i].disposed THEN resource
                                    ELSE onStats(resource, i, execIcon)} } : TRUE

\* ---- HashbangStrategy: one action per call or event ----

Asked(op, ret) == [op |-> op, ret |-> ret]

\* A resource whose data may be unread and whose stats are not loaded yet.
HeaderInit ==
    /\ rsrc \in [data : Headers \cup {Null}, name : ResourceNames, executable : {Null},
                 icon : {<<>>}, onStats : {<<>>}]
    /\ asked = Asked("new Resource", Undefined)

\* StrategyManager.query reaches the strategy (through check) only while it
\* is enabled.
MatchIcon ==
    \E res \in {matchIcon(tableCache, executableIcon, rsrc)} :
        /\ enabled["hashbangs"]
        /\ Len(res.rsrc.onStats) <= MaxListeners
        /\ tableCache' = res.cache
        /\ rsrc' = res.rsrc
        /\ asked' = Asked("matchIcon", res.ret)
        /\ UNCHANGED <<binaryIcon, executableIcon, matched>>
        /\ UNCHANGED <<managerVars, storageVars, packageVars, nodeVars>>

\* The resource's stats arrive: executable is known and did-load-stats is
\* emitted.
DidLoadStats(executable) ==
    \E res \in {emitDidLoadStats([rsrc EXCEPT !.executable = Boolean(executable)],
                                 1, executableIcon)} :
        /\ rsrc' = res
        /\ asked' = Asked("didLoadStats", Boolean(executable))
        /\ UNCHANGED tableVars
        /\ UNCHANGED <<managerVars, storageVars, packageVars, nodeVars>>

\* The observer of the strategy's setting calls enable() or disable(): the
\* strategy takes part in queries or no longer does.
HashbangSetting(value) ==
    /\ enabled["hashbangs"] # value
    /\ enabled' = [enabled EXCEPT !["hashbangs"] = value]
    /\ asked' = Asked(IF value THEN "enable" ELSE "disable", Undefined)
    /\ UNCHANGED <<declared, fileStrategies, directoryStrategies, isReady, event, log>>
    /\ UNCHANGED <<rsrc, tableVars, storageVars, packageVars, nodeVars>>

HeaderNext ==
    \/ MatchIcon
    \/ \E executable \in BOOLEAN : DidLoadStats(executable)
    \/ \E value \in BOOLEAN : HashbangSetting(value)

(***************************************************************************)
(* ModelineStrategy                                                        *)
(***************************************************************************)

\* The first lines of the resources asked about: Emacs directives with and
\* without "mode:", a Vim modeline, both on one line, and plain text.
Modelines ==
    { String("-*- mode: fundamental -*-"), String("-*- mode: Shell -*-"),
      String("-*- mode: zz -*-"), String("-*- Assembly -*-"),
      String("-*- mode: fundamental -*- vim: ft=Shell"),
      String("vim: ft=Assembly"), String("hi") }

\* The position of the first word at or after i that is -*-, or 0.
FirstMarker(words, i) ==
    LET at == {k \in i..Len(words) : words[k] = << "-", "*", "-" >>}
    IN  IF at = {} THEN 0 ELSE CHOOSE k \in at : \A j \in at : k <= j

\* data.match of the Emacs pattern: between two -*- markers, the word after
\* "mode:", or the only word; tokens[1] or null. The lines above have no
\* other variables between the markers.
EmacsTokens(line) ==
    LET words == Words(line)
        open == FirstMarker(words, 1)
        close == IF open = 0 THEN 0 ELSE FirstMarker(words, open + 1)
    IN  IF close = open + 3 /\ words[open + 1] = << "m", "o", "d", "e", ":" >>
        THEN [type |-> "match", t1 |-> words[open + 2]]
        ELSE IF close = open + 2 /\ open # 0
        THEN [type |-> "match", t1 |-> words[open + 1]]
        ELSE Null

\* data.match of the Vim pattern: the word vim: at the start of the line or
\* after a space, then ft=<type>; tokens[1] or null.
VimTokens(line) ==
    LET words == Words(line)
        at == {k \in 1..(Len(words) - 1) :
                 /\ words[k] = << "v", "i", "m", ":" >>
                 /\ StartsWith(words[k + 1], << "f", "t", "=" >>)
                 /\ Len(words[k + 1]) > 3}
    IN  IF at = {} THEN Null
        ELSE LET k == CHOOSE k \in at : \A j \in at : k <= j
             IN  [type |-> "match", t1 |-> SubSeq(words[k + 1], 4, Len(words[k + 1]))]

modelineMatchIconEmacsOnly(c, resource) ==
    LET data == IF resource.data = Null THEN <<>>
                ELSE getFirstLine(Chars(resource.data.value))
        emacs == EmacsTokens(data)
        same == [cache |-> c, rsrc |-> resource, ret |-> Null]
    IN  IF data = <<>> THEN same
        ELSE IF emacs # Null
        THEN IF Str(emacs.t1) = "fundamental" THEN same
             ELSE LET found == matchLanguage(c, Str(emacs.t1))
                  IN  [cache |-> found.cache, rsrc |-> resource, ret |-> found.ret]
        ELSE IF VimTokens(data) # Null
        THEN LET found == matchLanguage(c, Str(VimTokens(data).t1))
             IN  [cache |-> found.cache, rsrc |-> resource, ret |-> found.ret]
        ELSE same

\* ModelineStrategy.matchIcon, with FileIcons.iconTables the tables above.
\* A directive for the mode fundamental is passed over, and the line is
\* then searched for a Vim modeline like a line without an Emacs directive.
modelineMatchIcon(c, resource) ==
    LET data == IF resource.data = Null THEN <<>>
                ELSE getFirstLine(Chars(resource.data.value))
        emacs == EmacsTokens(data)
        vim == VimTokens(data)
        same == [cache |-> c, rsrc |-> resource, ret |-> Null]
    IN  IF data = <<>> THEN same
        ELSE IF emacs # Null /\ Str(emacs.t1) # "fundamental"
        THEN LET found == matchLanguage(c, Str(emacs.t1))
             IN  [cache |-> found.cache, rsrc |-> resource, ret |-> found.ret]
        ELSE IF vim # Null
        THEN LET found == matchLanguage(c, Str(vim.t1))
             IN  [cache |-> found.cache, rsrc |-> resource, ret |-> found.ret]
        ELSE same

\* ---- ModelineStrategy: one action per call or event ----

\* A resource whose data may be unread.
ModelineInit ==
    /\ rsrc \in [data : Modelines \cup {Null}, name : {"run"}, executable : {Null},
                 icon : {<<>>}, onStats : {<<>>}]
    /\ asked = Asked("new Resource", Undefined)

MatchModeline ==
    \E res \in {modelineMatchIcon(tableCache, rsrc)} :
        /\ tableCache' = res.cache
        /\ rsrc' = res.rsrc
        /\ asked' = Asked("modelines.matchIcon", res.ret)
        /\ UNCHANGED <<binaryIcon, executableIcon, matched>>
        /\ UNCHANGED <<managerVars, storageVars, packageVars, nodeVars>>

\* The resource's data is read, or read again after the file changed.
DidChangeData(data) ==
    /\ rsrc.data # data
    /\ rsrc' = [rsrc EXCEPT !.data = data]
    /\ asked' = Asked("didChangeData", Undefined)
    /\ UNCHANGED tableVars
    /\ UNCHANGED <<managerVars, storageVars, packageVars, nodeVars>>

\* Other callers look languages up in the same tables.
ModelineNext ==
    \/ MatchModeline
    \/ \E data \in Modelines : DidChangeData(data)
    \/ \E name \in LanguageKeys : MatchLanguage(name)

(***************************************************************************)
(* FileIcons: the package object                                           *)
(***************************************************************************)

\* The stages of the package's activation.
DEACTIVATED == 0
DEACTIVATING == 1
ACTIVATING == 2
LOADED_CACHE == 4
ACTIVATED == 128

\* x | DEACTIVATING: bit 0 is set
OrDeactivating(x) == IF x % 2 = 1 THEN x ELSE x + DEACTIVATING

\* The targets handed to addIconToElement: none, a jQuery object and an
\* element of the document; and the paths: a path, the empty string, none.
JQuery == [type |-> "object", isHTMLElement |-> FALSE]
Div == [type |-> "object", isHTMLElement |-> TRUE]
Elements == {Null, Undefined, JQuery, Div}
PathArguments == {String("/a/x"), String(""), Undefined}

\* element instanceof HTMLElement
InstanceOfHTMLElement(element) == element.type = "object" /\ element.isHTMLElement

\* new MappedDisposable() with the keys added to it, and new Map()
MappedDisposable(keys) == [type |-> "MappedDisposable", keys |-> keys]
Map(entries) == [type |-> "Map", entries |-> entries]

\* new Disposable(), with no action; and a notification of atom.notifications
NoopDisposable == [type |-> "Disposable", action |-> "none"]
Notification(kind) == [type |-> "Notification", kind |-> kind]

\* The package object before activate was ever called: the literal has
\* disposables: null and loadState; every other property is undefined.
Package ==
    [loadState |-> DEACTIVATED, readyState |-> Undefined, disposables |-> Null,
     emitter |-> Undefined, iconsByElement |-> Undefined,
     iconDisposables |-> Undefined, storage |-> Undefined,
     strategies |-> Undefined, pc |-> "deactivated"]

\* FileIcons.addIconToElement: the package and the returned value (or the
\* error raised). The names iconDisposables and IconNode are not declared
\* in main.js: evaluating either raises. MappedDisposable.add is taken to
\* accept what it is given.
addIconToElement(pkg, element, path) ==
    LET icon == IF pkg.iconsByElement = Undefined THEN Undefined
                ELSE MapGet(pkg.iconsByElement.entries, element)
        raised == IF ~Truthy(element) THEN Undefined
                  ELSE IF pkg.iconsByElement = Undefined THEN TypeError
                  ELSE IF Truthy(icon) /\ ~icon.destroyed THEN ReferenceError
                  ELSE IF ~Truthy(path) \/ ~InstanceOfHTMLElement(element)
                  THEN Undefined
                  ELSE ReferenceError
        disposable == IF Truthy(element) THEN NoopDisposable ELSE Null
    IN  IF raised # Undefined THEN [pkg |-> pkg, ret |-> raised]
        ELSE [pkg |-> IF pkg.disposables # Null
                      THEN [pkg EXCEPT !.disposables.keys = @ \cup {"<added>"}]
                      ELSE pkg,
              ret |-> disposable]

\* FileIcons.resetCache: the map and the returned value (or the error
\* raised). The package has no data property, so this.data.paths raises
\* before anything is reset.
resetCache(pkg, cache, lk) ==
    IF ~Truthy(pkg.storage) THEN Result(cache, TypeError)
    ELSE IF lk THEN Result(cache, Notification("error"))
    ELSE Result(cache, TypeError)

\* ---- FileIcons: one action per call, or per stretch between two awaits ----

Api(op, arg, ret) == [op |-> op, arg |-> arg, ret |-> ret]

PackageInit ==
    /\ FileIcons = Package
    /\ api = Api("require", Undefined, Undefined)

\* activate as far as its first await, with setupStorage: the containers
\* and the Storage are constructed, the storage's disposable is added.
Activate(state) ==
    /\ FileIcons.pc \in {"deactivated", "raised"}
    /\ paths' = Storage(state, rootDirectories)
    /\ locked' = FALSE
    /\ call' = Call("new Storage", NoPath, Given(state), Undefined, Undefined, {})
    /\ FileIcons' = [FileIcons EXCEPT
                        !.loadState = ACTIVATING,
                        !.disposables = MappedDisposable({"storage"}),
                        !.emitter = String("Emitter"),
                        !.iconsByElement = Map(EmptyMap),
                        !.iconDisposables = Map(EmptyMap),
                        !.storage = String("Storage"),
                        !.readyState = Number(LOADED_CACHE),
                        !.pc = "setupStrategies"]
    /\ api' = Api("activate", Undefined, Undefined)
    /\ UNCHANGED <<rootDirectories, managerVars, tableVars, headerVars, nodeVars>>

\* setupStrategies as far as its await: the StrategyManager is constructed,
\* with every strategy loaded and its lists not yet sorted.
SetupStrategies ==
    /\ FileIcons.pc = "setupStrategies"
    /\ \E m \in { loadAll([declared |-> declared, files |-> <<>>, dirs |-> <<>>,
                             enabled |-> [s \in Strategies |-> FALSE]], 1, enabled) } :
          /\ fileStrategies' = m.files
          /\ directoryStrategies' = m.dirs
          /\ enabled' = m.enabled
    /\ isReady' = FALSE
    /\ event' = [type |-> "new"]
    /\ log' = <<>>
    /\ FileIcons' = [FileIcons EXCEPT !.strategies = String("StrategyManager"),
                                      !.pc = "loadPromise"]
    /\ api' = Api("setupStrategies", Undefined, Undefined)
    /\ UNCHANGED <<declared, storageVars, tableVars, headerVars, nodeVars>>

\* loadPromise resolves: the rest of loadStrategies runs.
LoadPromiseResolves ==
    /\ Truthy(FileIcons.strategies)
    /\ loadStrategies

SetupStrategiesUnawaited ==
    /\ FileIcons.pc = "loadPromise"
    /\ FileIcons' = [FileIcons EXCEPT
                        !.pc = IF setupStrategies.ret = TypeError
                               THEN "rejected" ELSE "setupCommands",
                        !.disposables.keys = IF setupStrategies.listening
                                             THEN @ \cup {"service"} ELSE @]
    /\ api' = Api("FileSystem.observe", Boolean(isReady), setupStrategies.ret)
    /\ UNCHANGED <<managerVars, storageVars, tableVars, headerVars, nodeVars>>

\* setupStrategies after its await: the observer of resources and the
\* listener for file changes are to be registered. Evaluating the first
\* raises, which rejects the promise of setupStrategies and with it that
\* of activate: loadState stays ACTIVATING.
SetupStrategiesResumes ==
    /\ FileIcons.pc = "loadPromise"
    /\ isReady
    /\ FileIcons' = [FileIcons EXCEPT
                        !.pc = IF setupStrategies.ret = TypeError
                               THEN "rejected" ELSE "setupCommands",
                        !.disposables.keys = IF setupStrategies.listening
                                             THEN @ \cup {"service"} ELSE @]
    /\ api' = Api("FileSystem.observe", Boolean(isReady), setupStrategies.ret)
    /\ UNCHANGED <<managerVars, storageVars, tableVars, headerVars, nodeVars>>

AddIconToElement(element, path) ==
    \E res \in {addIconToElement(FileIcons, element, path)} :
        /\ FileIcons' = res.pkg
        /\ api' = Api("addIconToElement", [element |-> element, path |-> path], res.ret)
        /\ UNCHANGED <<managerVars, storageVars, tableVars, headerVars, nodeVars>>

ResetCache ==
    \E res \in {resetCache(FileIcons, paths, locked)} :
        /\ paths' = res.paths
        /\ api' = Api("resetCache", Boolean(locked), res.ret)
        /\ UNCHANGED <<FileIcons, locked, rootDirectories, call>>
        /\ UNCHANGED <<managerVars, tableVars, headerVars, nodeVars>>

DeactivateWithoutLock ==
    /\ FileIcons.pc = "rejected"
    /\ FileIcons' = [FileIcons EXCEPT !.loadState = OrDeactivating(@),
                                      !.pc = "disposing"]
    /\ api' = Api("deactivate", Undefined, Undefined)
    /\ UNCHANGED <<storageVars, managerVars, tableVars, headerVars, nodeVars>>

\* deactivate, its first two statements: the storage is locked.
DeactivateLocks ==
    /\ FileIcons.pc = "rejected"
    /\ locked' = TRUE
    /\ FileIcons' = [FileIcons EXCEPT !.loadState = OrDeactivating(@),
                                      !.pc = "disposing"]
    /\ api' = Api("deactivate", Undefined, Undefined)
    /\ UNCHANGED <<paths, rootDirectories, call>>
    /\ UNCHANGED <<managerVars, tableVars, headerVars, nodeVars>>

\* deactivate, this.disposables.dispose(): the disposal action of the
\* storage calls this.storage.destroy(), which Storage does not define, and
\* raises before it clears this.storage. mapped-disposable is not part of
\* these sources: the error either leaves dispose, and deactivate with it,
\* or is contained there and deactivate goes on.
DeactivateDisposes(contained) ==
    /\ FileIcons.pc = "disposing"
    /\ FileIcons' = IF contained
                    THEN [FileIcons EXCEPT !.disposables = Null, !.pc = "emitting"]
                    ELSE [FileIcons EXCEPT !.pc = "raised"]
    /\ api' = Api("disposables.dispose", Undefined,
                  IF contained THEN Undefined ELSE TypeError)
    /\ UNCHANGED <<storageVars, managerVars, tableVars, headerVars, nodeVars>>

\* deactivate, the rest: did-destroy is emitted and the emitter disposed of.
DeactivateEmits ==
    /\ FileIcons.pc = "emitting"
    /\ FileIcons' = [FileIcons EXCEPT !.emitter = Null, !.loadState = DEACTIVATED,
                                      !.pc = "deactivated"]
    /\ api' = Api("emit did-destroy", Undefined, Undefined)
    /\ UNCHANGED <<storageVars, managerVars, tableVars, headerVars, nodeVars>>

\* The calls that reach the storage from the package's collaborators while
\* the package has one: from the callbacks of resources, and during
\* deactivate from the disposal actions and the listeners of did-destroy.
StorageCallbacks ==
    /\ Truthy(FileIcons.storage)
    /\ \/ \E path \in Paths, iconData \in IconData : SetPathIcon(path, iconData)
       \/ \E path \in Paths : \E inode \in Inodes(path) : SetPathInode(path, inode)
       \/ \E path \in Paths : DeletePath(path)
       \/ \E path \in Paths : DeletePathIcon(path)

\* Activation and deactivation, session after session.
LifecycleNext ==
    \/ \E state \in SavedStates : Activate(state)
    \/ SetupStrategies
    \/ LoadPromiseResolves
    \/ SetupStrategiesResumes
    \/ DeactivateLocks
    \/ \E contained \in BOOLEAN : DeactivateDisposes(contained)
    \/ DeactivateEmits

\* The package and its storage.
PackageNext ==
    \/ LifecycleNext
    \/ ResetCache
    \/ StorageCallbacks

\* The package and the call it offers to other packages.
ServiceNext ==
    \/ LifecycleNext
    \/ \E element \in Elements, path \in PathArguments : AddIconToElement(element, path)

(***************************************************************************)
(* IconNode: the icon classes one node keeps on one element                *)
(***************************************************************************)

\* An array of class names, as an icon delegate's getClasses() returns it.
Array(items) == [type |-> "Array", items |-> items]
Items(array) == {array.items[i] : i \in 1..Len(array.items)}

\* array[i], counted from 0: undefined past its end
At(array, i) ==
    IF i + 1 \in 1..Len(array.items) THEN String(array.items[i + 1]) ELSE Undefined

\* What getClasses() returns: null, or one of two lists of icon classes.
IconClasses ==
    {Null, Array(<<"a-icon", "dark-red">>), Array(<<"b-icon", "dark-red">>)}

\* delegate.getFallbackClasses(), for a directory
FallbackClasses == {"icon-file-directory"}

\* resource.icon, with what getClasses() and getCurrentIcon() return now.
IconDelegate(classes, currentIcon) ==
    [type |-> "IconDelegate", classes |-> classes, currentIcon |-> currentIcon]

\* The resources handed to the constructor: a file and a directory with an
\* icon, each without classes, and a resource that has no delegate.
NodeResources ==
    {[isFile |-> TRUE, icon |-> Null]}
        \cup {[isFile |-> TRUE, icon |-> IconDelegate(c, Boolean(c # Null))] :
                c \in IconClasses}
        \cup {[isFile |-> FALSE, icon |-> IconDelegate(c, Boolean(c # Null))] :
                c \in IconClasses}

\* The two copies of the class: lib/service/icon-node.js names a variable
\* iconsByElement, which nothing declares; the other copy names the map of
\* the package.
IconNodeModules == {"lib/service/icon-node.js", "FileIcons.iconsByElement"}

\* The entry of iconsByElement for an element: a reference to its node.
NodeRef == [type |-> "IconNode"]

MapDelete(map, key) == [k \in DOMAIN map \ {key} |-> map[k]]

\* The fields of an IconNode as the constructor first sets them; destroyed
\* is false on the prototype. subscribed: this.disposables holds the
\* listeners and was not disposed of.
IconNode(resource, element, tabIcon) ==
    [type |-> "IconNode", resource |-> resource, element |-> element,
     visible |-> TRUE, classes |-> Null, appliedClasses |-> Null,
     destroyed |-> FALSE, subscribed |-> FALSE, tabIcon |-> tabIcon]

\* What a method of the node reads and writes: the node, the classList of
\* its element, the entries of iconsByElement, and (kept for the claims)
\* the classes this node added to the element and did not remove again.
World(n, cl, map, by) == [node |-> n, classList |-> cl, map |-> map, by |-> by]

\* IconNode.removeClasses
removeClasses(w) ==
    IF w.node.appliedClasses # Null
    THEN [w EXCEPT !.classList = @ \ Items(w.node.appliedClasses),
                   !.by = @ \ Items(w.node.appliedClasses),
                   !.node.appliedClasses = Null]
    ELSE w

\* IconNode.addClasses
addClasses(w) ==
    IF ~w.node.visible THEN w
    ELSE IF Truthy(w.node.classes)
    THEN [w EXCEPT !.node.appliedClasses = w.node.classes,
                   !.classList = @ \cup Items(w.node.classes),
                   !.by = @ \cup Items(w.node.classes)]
    ELSE w

\* IconNode.classesDiffer
classesDiffer(a, b) ==
    IF Truthy(a) /\ Truthy(b)
    THEN ~(At(a, 0) = At(b, 0) /\ At(a, 1) = At(b, 1))
    ELSE TRUE

\* IconNode.refresh
refresh(w) ==
    IF ~w.node.visible
    THEN LET removed == removeClasses(w)
         IN  [removed EXCEPT !.node.classes = Null]
    ELSE LET classes == w.node.resource.icon.classes
         IN  IF classesDiffer(classes, w.node.classes)
             THEN LET removed == removeClasses(w)
                  IN  addClasses([removed EXCEPT !.node.classes = classes])
             ELSE w

\* IconNode.setVisible
setVisible(w, input) ==
    IF Truthy(input) # w.node.visible
    THEN refresh([w EXCEPT !.node.visible = Truthy(input)])
    ELSE w

\* IconNode.destroy: the listeners are disposed of, the element's entry is
\* deleted and the fields are cleared. The classList is not touched.
destroy(w) ==
    IF ~w.node.destroyed
    THEN [w EXCEPT !.map = MapDelete(@, w.node.element),
                   !.node.subscribed = FALSE,
                   !.node.appliedClasses = Null,
                   !.node.classes = Null,
                   !.node.resource = Null,
                   !.node.element = Null,
                   !.node.destroyed = TRUE]
    ELSE w

\* new IconNode(resource, element, tabIcon): the world after it, and the
\* error it raised if any. In lib/service/icon-node.js the first use of
\* iconsByElement raises; in the other copy the map is read from the
\* package, and the listeners are added through FileIcons.ui, which is
\* undefined until setupUI has run: the node is then left in the map with
\* no listener.
constructor(module, pkg, ui, tabPaneIcon, cl, resource, element, tabIcon) ==
    LET fresh == IconNode(resource, element, tabIcon)
        set == World(fresh, cl, MapSet(pkg.iconsByElement.entries, element, NodeRef), {})
        listening == [set EXCEPT !.node.subscribed = TRUE]
        shown == IF tabIcon THEN setVisible(listening, tabPaneIcon) ELSE listening
        cleared == IF ~resource.isFile /\ Truthy(resource.icon.currentIcon)
                   THEN [shown EXCEPT !.classList = @ \ FallbackClasses]
                   ELSE shown
    IN  IF module = "lib/service/icon-node.js"
        THEN [raised |-> ReferenceError]
        ELSE IF pkg.iconsByElement = Undefined
        THEN [raised |-> TypeError]
        ELSE IF resource.icon \in {Null, Undefined}
        THEN [raised |-> Undefined, w |-> destroy(set)]
        ELSE IF ui = Undefined
        THEN [raised |-> TypeError, w |-> set]
        ELSE [raised |-> Undefined, w |-> refresh(cleared)]

\* ---- IconNode: one action per call on a node or listener of a node ----

Drawn(op, arg, ret, by) == [op |-> op, arg |-> arg, ret |-> ret, by |-> by]

\* The classes a consumer gives an element: those of a file's entry, or
\* those of a directory's with the class it falls back on.
ElementClasses == {{"name", "icon"}, {"name", "icon"} \cup FallbackClasses}

\* No node yet. FileIcons.ui and the tabPaneIcon setting are as the session
\* has them: ui is undefined unless setupUI has run.
NodeInit ==
    /\ node = Undefined
    /\ classList \in ElementClasses
    /\ config \in [ui : {Undefined, String("UI")}, tabPaneIcon : BOOLEAN]
    /\ drawn = Drawn("require", Undefined, Undefined, {})

\* The world of the node that exists.
Now == World(node, classList, FileIcons.iconsByElement.entries, drawn.by)

\* The world is stored.
Becomes(w, op, arg, ret) ==
    /\ node' = w.node
    /\ classList' = w.classList
    /\ FileIcons' = [FileIcons EXCEPT !.iconsByElement.entries = w.map]
    /\ drawn' = Drawn(op, arg, ret, w.by)
    /\ UNCHANGED <<config, api>>
    /\ UNCHANGED <<managerVars, storageVars, tableVars, headerVars>>

\* A consumer constructs a node for the element, which has no live node.
NewIconNode(module, resource, tabIcon) ==
    /\ IF node = Undefined THEN TRUE ELSE node.destroyed
    /\ \E made \in {constructor(module, FileIcons, config.ui,
                                Boolean(config.tabPaneIcon), classList,
                                resource, Div, tabIcon)} :
          IF "w" \in DOMAIN made
          THEN Becomes(made.w, "new IconNode", String(module), made.raised)
          ELSE /\ drawn' = Drawn("new IconNode", String(module), made.raised, drawn.by)
               /\ UNCHANGED <<node, classList, config, packageVars>>
               /\ UNCHANGED <<managerVars, storageVars, tableVars, headerVars>>

Listening == node # Undefined /\ node.subscribed

\* delegate.onDidChangeIcon: the resource's icon has other classes now.
DidChangeIcon(classes) ==
    /\ Listening
    /\ \E w \in {refresh([Now EXCEPT !.node.resource.icon.classes = classes])} :
          Becomes(w, "did-change-icon", classes, Undefined)

\* UI.onMotifChanged, and the settings that only refresh
MotifChanged ==
    /\ Listening
    /\ \E w \in {refresh(Now)} : Becomes(w, "motif-changed", Undefined, Undefined)

\* The tabPaneIcon setting changes: the nodes of tabs are shown or hidden.
TabPaneIcon(show) ==
    /\ config.tabPaneIcon # show
    /\ config' = [config EXCEPT !.tabPaneIcon = show]
    /\ IF Listening /\ node.tabIcon
       THEN \E w \in {setVisible(Now, Boolean(show))} :
               /\ node' = w.node
               /\ classList' = w.classList
               /\ drawn' = Drawn("tabPaneIcon", Boolean(show), Undefined, w.by)
       ELSE /\ drawn' = Drawn("tabPaneIcon", Boolean(show), Undefined, drawn.by)
            /\ UNCHANGED <<node, classList>>
    /\ UNCHANGED <<packageVars, managerVars, storageVars, tableVars, headerVars>>

\* resource.onDidDestroy
ResourceDestroyed ==
    /\ Listening
    /\ \E w \in {destroy(Now)} : Becomes(w, "did-destroy", Undefined, Undefined)

\* node.destroy(), called on a node whatever its state
Destroy ==
    /\ node # Undefined
    /\ FileIcons.iconsByElement # Undefined
    /\ \E w \in {destroy(Now)} :
          Becomes(w, "destroy", Boolean(node.destroyed), Undefined)

\* The package begins a session; nodes come and go.
NodeNext ==
    \/ \E state \in SavedStates : Activate(state)
    \/ \E module \in IconNodeModules, resource \in NodeResources, tabIcon \in BOOLEAN :
          NewIconNode(module, resource, tabIcon)
    \/ \E classes \in IconClasses : DidChangeIcon(classes)
    \/ MotifChanged
    \/ \E show \in BOOLEAN : TabPaneIcon(show)
    \/ ResourceDestroyed
    \/ Destroy

(***************************************************************************)
(* Specifications: one component is exercised, the others stay as built    *)
(***************************************************************************)

ManagerNext ==
    \/ loadStrategies
    \/ \E name \in Strategies, value \in BOOLEAN : ConfigChange(name, value)
    \/ \E resource \in Resources : query(resource)

\* The manager as constructed, with every setting on and the first set of
\* declarations.
ManagerIdle ==
    ManagerInit /\ Disabled(enabled) = {} /\ declared["path"].priority = 1

\* The storage as constructed, with one project open.
StorageIdle == StorageInit /\ rootDirectories = {RootB}

\* A resource that is not looked at.
HeaderIdle == HeaderInit /\ rsrc.data = Null /\ rsrc.name = "run"

\* The package object as loaded, and an element nobody made a node for.
PackageIdle ==
    /\ PackageInit
    /\ NodeInit
    /\ classList = {"name", "icon"}
    /\ config = [ui |-> Undefined, tabPaneIcon |-> TRUE]

InitQuery == ManagerInit /\ StorageIdle /\ TablesInit /\ HeaderIdle /\ PackageIdle

SpecQuery == InitQuery /\ [][ManagerNext]_vars

InitStorage == StorageInit /\ ManagerIdle /\ TablesInit /\ HeaderIdle /\ PackageIdle

SpecStorage == InitStorage /\ [][StorageNext]_vars

\* One session that goes on: calls keep arriving, none of them owed. The
\* package calls clean only in the Storage constructor, so no call of clean
\* is owed to a change of the project's roots.
SpecSession == InitStorage /\ [][SessionNext]_vars /\ WF_vars(SessionNext)

InitTables == TablesInit /\ ManagerIdle /\ StorageIdle /\ HeaderIdle /\ PackageIdle

SpecTables == InitTables /\ [][TablesNext]_vars

InitHeader == HeaderInit /\ TablesInit /\ ManagerIdle /\ StorageIdle /\ PackageIdle

SpecHeader == InitHeader /\ [][HeaderNext]_vars

InitModeline == ModelineInit /\ TablesInit /\ ManagerIdle /\ StorageIdle /\ PackageIdle

SpecModeline == InitModeline /\ [][ModelineNext]_vars

\* The package through its sessions. The manager's variables hold, before
\* the first activation, what its constructor is going to build.
InitPackage == PackageIdle /\ StorageIdle /\ ManagerIdle /\ TablesInit /\ HeaderIdle

SpecPackage == InitPackage /\ [][PackageNext]_vars

SpecService == InitPackage /\ [][ServiceNext]_vars

\* The nodes of one element, in a session with or without its UI.
InitNode ==
    PackageInit /\ NodeInit /\ StorageIdle /\ ManagerIdle /\ TablesInit /\ HeaderIdle

SpecNode == InitNode /\ [][NodeNext]_vars

(***************************************************************************)
(* Claims about the query pipeline (checked under SpecQuery)               *)
(***************************************************************************)

IsEnabled(s) == enabled[s]

\* The list the last query walked, and its enabled members in list order.
QueriedList == IF event.isDirectory THEN directoryStrategies ELSE fileStrategies
QueriedEnabled == SelectSeq(QueriedList, IsEnabled)

PosIn(seq, s) == CHOOSE i \in 1..Len(seq) : seq[i] = s
InList(seq, s) == \E i \in 1..Len(seq) : seq[i] = s
LogPos(s) == CHOOSE i \in 1..Len(log) : log[i].strategy = s
Committed == {i \in 1..Len(log) : log[i].shouldStop}
Priority(s) == declared[s].priority

\* C1: within one query call at most one check returns a truthy result, no
\* strategy after the committing one is invoked, and every enabled strategy
\* before it was invoked, in list order, and declined.
C1_OneCommitStopsPipeline ==
    event.type = "query" =>
        /\ Cardinality(Committed) <= 1
        /\ Len(log) <= Len(QueriedEnabled)
        /\ \A i \in 1..Len(log) : log[i].strategy = QueriedEnabled[i]
        /\ \A i \in Committed : i = Len(log)
        /\ Len(log) < Len(QueriedEnabled) => Committed # {}

\* A query that committed at its third check, with enabled strategies left over.
C1_Witness ==
    /\ event.type = "query"
    /\ Len(log) >= 3
    /\ log[Len(log)].shouldStop
    /\ Len(log) < Len(QueriedEnabled)

AllThreeEnabled ==
    /\ event.type = "query"
    /\ ~event.isDirectory
    /\ enabled["signature"] /\ enabled["hashbangs"] /\ enabled["modelines"]

\* C2 as stated: with signature, hashbang and modeline enabled, a query on a
\* file invokes the signature check before the hashbang and modeline checks.
C2_SignatureCheckedFirst ==
    AllThreeEnabled =>
        \A s \in {"hashbangs", "modelines"} :
            s \in Checked(log) =>
                /\ "signature" \in Checked(log)
                /\ LogPos("signature") < LogPos(s)

\* C2 amended: the signature check is never invoked before the hashbang or
\* the modeline check. Modeline (slot 6) is asked before hashbang (slot 5),
\* which is asked before signature (slot 0); each is asked only after those
\* of the others that are in the list were asked and declined.
HeaderOrder ==
    { <<"modelines", "hashbangs">>, <<"modelines", "signature">>,
      <<"hashbangs", "signature">> }

C2_SignatureCheckedLast ==
    AllThreeEnabled =>
        \A s, t \in {"modelines", "hashbangs", "signature"} :
            (<<s, t>> \in HeaderOrder /\ t \in Checked(log) /\ InList(fileStrategies, s)) =>
                /\ s \in Checked(log)
                /\ LogPos(s) < LogPos(t)
                /\ ~log[LogPos(s)].shouldStop

\* A file query that reached the signature check after the other two.
C2_Witness ==
    /\ AllThreeEnabled
    /\ {"modelines", "hashbangs", "signature"} \subseteq Checked(log)

StrictlyDescending(seq) ==
    \A i, j \in 1..Len(seq) : i < j => Priority(seq[i]) > Priority(seq[j])

\* C3: once the manager is ready both lists are in strictly descending order
\* of declared priority slot, and every query checks strategies in that order.
C3_DescendingPriorityOrder ==
    isReady =>
        /\ StrictlyDescending(fileStrategies)
        /\ StrictlyDescending(directoryStrategies)
        /\ event.type = "query" =>
               \A i, j \in 1..Len(log) :
                   i < j => Priority(log[i].strategy) > Priority(log[j].strategy)

\* A query that walked at least four strategies.
C3_Witness ==
    /\ isReady
    /\ event.type = "query"
    /\ Len(log) >= 4

\* C4: a query never invokes check on a disabled strategy; a disabled
\* strategy does not stop the pipeline (an enabled strategy after it is
\* consulted unless an earlier one committed); and a strategy consulted by
\* one query and disabled before the next is not consulted by the next.
C4_DisabledSkipped ==
    event.type = "query" =>
        /\ \A i \in 1..Len(log) : enabled[log[i].strategy]
        /\ event.disabledBefore \notin Checked(log)
        /\ \A k, j \in 1..Len(QueriedList) :
              (k < j /\ ~enabled[QueriedList[k]] /\ enabled[QueriedList[j]]) =>
                  \/ QueriedList[j] \in Checked(log)
                  \/ \E i \in Committed : PosIn(QueriedList, log[i].strategy) < j

\* A query made right after a consulted strategy was disabled, which went
\* past that strategy's position to a later one.
C4_Witness ==
    /\ event.type = "query"
    /\ event.disabledBefore # None
    /\ InList(QueriedList, event.disabledBefore)
    /\ \E i \in 1..Len(log) :
          PosIn(QueriedList, log[i].strategy) > PosIn(QueriedList, event.disabledBefore)

(***************************************************************************)
(* Claims about the session cache (checked under SpecStorage)              *)
(***************************************************************************)

\* What the map holds, whatever the order of use.
Entries(cache) == [k \in Keys(cache) |-> LRUPeek(cache, k)]

\* Which path lies in which project, as the directory tree has it.
Encloses == { <<"/a", "/a/x">>, <<"/b", "/b">> }
InProject(path, roots) == \E root \in roots : <<root, path>> \in Encloses

HoldsData(entry) == Truthy(entry.icon) \/ Truthy(entry.inode)

LockedCalls ==
    { "addPath", "getPathEntry", "setPathIcon", "setPathInode",
      "deletePath", "deletePathIcon", "clean" }

\* C5: while the storage is locked, addPath, getPathEntry, setPathIcon,
\* setPathInode, deletePath, deletePathIcon and clean leave the cached paths
\* and every entry's icon and inode as they were, and none of them raises.
C5_LockedCallsChangeNothing ==
    [][ (locked /\ call'.op \in LockedCalls) =>
            /\ Entries(paths') = Entries(paths)
            /\ call'.ret # TypeError ]_vars

\* clean was called on a locked storage that holds a path outside every project.
C5_Witness ==
    /\ locked
    /\ call.op = "clean"
    /\ \E k \in Keys(paths) : ~InProject(k, rootDirectories)

StaleInodeCall ==
    /\ call.op = "setPathInode"
    /\ ~locked
    /\ Truthy(call.arg)
    /\ call.before # Undefined
    /\ Truthy(call.before.inode)
    /\ call.before.inode # call.arg

\* C6: after setPathInode(path, B) on an unlocked storage whose entry for the
\* path recorded another inode A, the entry has inode B and no icon.
C6_StaleInodeDropsIcon ==
    StaleInodeCall =>
        /\ LRUPeek(paths, call.path) = [icon |-> Null, inode |-> call.arg]
        /\ ~hasIcon(paths, call.path).ret

\* Such a call on an entry that had an icon stored.
C6_Witness ==
    /\ StaleInodeCall
    /\ Truthy(call.before.icon)

\* C7: a Storage constructed from what serialise returned holds every entry
\* that had data and lies in an open project, with the same icon and inode;
\* the serialised object carries the version number; and FileIcons.serialize
\* returns that object.
C7_SerialisedStateRestores ==
    [][ /\ (call'.op = "new Storage" /\ call'.arg.state = "serialised") =>
              \A k \in Keys(paths) :
                  (HoldsData(LRUPeek(paths, k)) /\ InProject(k, rootDirectories)) =>
                      /\ k \in Keys(paths')
                      /\ LRUPeek(paths', k) = LRUPeek(paths, k)
        /\ call'.op = "serialise" => call'.ret.version = Number(Version)
        /\ call'.op = "FileIcons.serialize" => call'.ret = serialise(paths) ]_vars

VersionMismatch ==
    /\ call.op = "new Storage"
    /\ call.arg.state # "null"
    /\ call.arg.version # Number(Version)

\* C8: a Storage constructed from a state whose version is not the current
\* one is empty.
C8_VersionMismatchStartsCold ==
    VersionMismatch => size(paths) = 0

\* The state came from an older version and held entries with data inside
\* an open project.
C8_Witness ==
    /\ VersionMismatch
    /\ call.arg.version = Number(Version - 1)
    /\ call.arg.held > 0

\* C9 as stated: after clean() on an unlocked storage no cached path lies
\* outside every open project, and every cached path inside an open project
\* is still there with the same icon and inode.
C9_CleanKeepsProjectPaths ==
    [][ (call'.op = "clean" /\ ~locked) =>
            /\ \A k \in Keys(paths') : InProject(k, rootDirectories)
            /\ \A k \in Keys(paths) :
                  InProject(k, rootDirectories) =>
                      /\ k \in Keys(paths')
                      /\ LRUPeek(paths', k) = LRUPeek(paths, k) ]_vars

\* C9 amended: after clean() on an unlocked storage no cached path lies
\* outside every open project; every cached path inside an open project
\* whose entry holds an icon or an inode is still there with the same icon
\* and inode; an entry that holds neither is removed wherever its path lies.
C9_CleanKeepsProjectData ==
    [][ (call'.op = "clean" /\ ~locked) =>
            /\ \A k \in Keys(paths') : InProject(k, rootDirectories)
            /\ \A k \in Keys(paths) :
                  IF InProject(k, rootDirectories) /\ HoldsData(LRUPeek(paths, k))
                  THEN /\ k \in Keys(paths')
                       /\ LRUPeek(paths', k) = LRUPeek(paths, k)
                  ELSE k \notin Keys(paths') ]_vars

\* clean removed a path and kept another.
C9_Witness ==
    /\ call.op = "clean"
    /\ ~locked
    /\ call.dropped # {}
    /\ size(paths) > 0

\* A call that put a path into the map which was not there before.
InsertsNewPath ==
    /\ call'.path \in Paths
    /\ call'.path \notin Keys(paths)
    /\ call'.path \in Keys(paths')

EvictsLeastRecentlyUsed ==
    (InsertsNewPath /\ size(paths) = MaxSize) =>
        /\ call'.dropped = {paths[Len(paths)].k}
        /\ size(paths') = MaxSize
        /\ \A k \in Keys(paths) \ call'.dropped :
              LRUPeek(paths', k) = LRUPeek(paths, k)

\* C10 as stated: the number of cached paths never exceeds maxSize; a new
\* path put into a full cache evicts exactly the least recently used entry;
\* and getPathEntry for a path that is not cached returns a blank entry.
C10_EvictedPathComesBackBlank ==
    /\ [](size(paths) <= MaxSize)
    /\ [][EvictsLeastRecentlyUsed]_vars
    /\ [][ (call'.op = "getPathEntry" /\ call'.path \notin Keys(paths)) =>
               call'.ret = BlankEntry ]_vars

\* C10 amended: as stated, but getPathEntry for a path that is not cached
\* returns a blank entry, and caches it, only while the storage is unlocked;
\* once the storage is locked it returns null and caches nothing.
C10_EvictedPathBlankUnlessLocked ==
    /\ [](size(paths) <= MaxSize)
    /\ [][EvictsLeastRecentlyUsed]_vars
    /\ [][ (call'.op = "getPathEntry" /\ call'.path \notin Keys(paths)) =>
               IF locked
               THEN call'.ret = Null /\ call'.path \notin Keys(paths')
               ELSE call'.ret = BlankEntry /\ call'.path \in Keys(paths') ]_vars

\* getPathEntry for a path that was not cached filled a full cache again:
\* it returned a blank entry and the map dropped another path for it.
C10_Witness ==
    /\ call.op = "getPathEntry"
    /\ call.before = Undefined
    /\ call.ret = BlankEntry
    /\ call.dropped # {}
    /\ size(paths) = MaxSize

\* C11: getPathIcon returns null, without raising and leaving the cached
\* contents as they were, for every path without a stored icon, a path absent
\* from a locked storage included; for a path with a stored icon it returns
\* the priority, index and iconClass last written by setPathIcon.
C11_GetPathIconNeverRaises ==
    [][ call'.op = "getPathIcon" =>
            LET entry == LRUPeek(paths, call'.path) IN
            IF entry # Undefined /\ Truthy(entry.icon)
            THEN call'.ret = [type |-> "object", priority |-> entry.icon.e0,
                              index |-> entry.icon.e1, iconClass |-> entry.icon.e2]
            ELSE call'.ret = Null /\ Entries(paths') = Entries(paths) ]_vars

\* C12: getPathEntry returns the entry cached for the path when there is
\* one; when there is none it stores and returns a blank entry if the
\* storage is unlocked, and returns null and stores nothing if it is locked.
C12_GetPathEntryCreatesUnlessLocked ==
    [][ call'.op = "getPathEntry" =>
            LET entry == LRUPeek(paths, call'.path) IN
            IF entry # Undefined
            THEN call'.ret = entry /\ Entries(paths') = Entries(paths)
            ELSE IF locked
            THEN call'.ret = Null /\ Entries(paths') = Entries(paths)
            ELSE /\ call'.ret = BlankEntry
                 /\ LRUPeek(paths', call'.path) = BlankEntry ]_vars

\* getPathEntry found nothing in a locked storage that holds other paths.
C12_Witness ==
    /\ call.op = "getPathEntry"
    /\ locked
    /\ call.before = Undefined
    /\ call.ret = Null
    /\ size(paths) > 0

\* C13: after a file-change event with action "deleted" for a path known to
\* the filesystem registry has reached an unlocked storage, the path has no
\* data and no icon in the storage, and the listener has not raised.
C13_DeletedFileLeavesCache ==
    (/\ call.op = "onDidChangeFiles"
     /\ call.arg # Undefined
     /\ ~locked) =>
        /\ ~hasData(paths, call.path).ret
        /\ ~hasIcon(paths, call.path).ret
        /\ call.ret \notin {TypeError, ReferenceError}

\* C14: within a session, once the project's roots have changed, an entry
\* whose path lies outside every root is eventually gone from the storage
\* (unless a root enclosing it is opened again, or the package is
\* deactivated first).
C14_OutsideEntriesEventuallyRemoved ==
    \A path \in Paths :
        (/\ call.op = "atom.project.setPaths"
         /\ ~locked
         /\ path \in Keys(paths)
         /\ ~InProject(path, rootDirectories))
            ~> \/ path \notin Keys(paths)
               \/ InProject(path, rootDirectories)
               \/ locked

(***************************************************************************)
(* Claims about the icon tables (checked under SpecTables)                 *)
(***************************************************************************)

MatchOps ==
    { "matchName", "matchPath", "matchLanguage", "matchScope",
      "matchInterpreter", "matchSignature" }

\* What a match call was given, the index it has to scan and the
\* expression of an icon it has to test.
KeyOf(m) == IF m.op = "matchSignature" THEN m.data ELSE m.key

IndexOfKind(op, directory) ==
    CASE op = "matchName" ->
            IF directory THEN directoryIcons.byName ELSE fileIcons.byName
      [] op = "matchPath" ->
            IF directory THEN directoryIcons.byPath ELSE fileIcons.byPath
      [] op = "matchLanguage" -> fileIcons.byLanguage
      [] op = "matchScope" -> fileIcons.byScope
      [] op = "matchInterpreter" -> fileIcons.byInterpreter
      [] op = "matchSignature" -> fileIcons.bySignature

FieldOfKind(op) ==
    CASE op \in {"matchName", "matchPath"} -> "match"
      [] op = "matchLanguage" -> "lang"
      [] op = "matchScope" -> "scope"
      [] op = "matchInterpreter" -> "interpreter"
      [] op = "matchSignature" -> "signature"

\* The map a match call reads, and the map of its own kind.
MapRead(op, directory) ==
    CASE op \in {"matchName", "matchPath"} ->
            IF directory THEN "directoryName" ELSE "fileName"
      [] op = "matchLanguage" -> "language"
      [] op = "matchScope" -> "scope"
      [] op = "matchInterpreter" -> "interpreter"
      [] op = "matchSignature" -> "signature"

MapOfKind(op, directory) ==
    IF op = "matchPath"
    THEN (IF directory THEN "directoryPath" ELSE "filePath")
    ELSE MapRead(op, directory)

\* The first icon of the index that accepts the key, or null.
FirstOfIndex(op, directory, key) ==
    LET icons == IndexOfKind(op, directory)
        field == FieldOfKind(op)
    IN  IF \E i \in 1..Len(icons) : Test(icons[i][field], key)
        THEN icons[CHOOSE i \in 1..Len(icons) :
                      /\ Test(icons[i][field], key)
                      /\ \A j \in 1..(i - 1) : ~Test(icons[j][field], key)]
        ELSE Null

FirstFor(m) == FirstOfIndex(m.op, m.directory, KeyOf(m))

\* C15: a match call with a key for which the map it reads holds nothing
\* returns the first icon, in the order of its index of the table chosen,
\* that accepts the key, and null if none does (but for matchSignature on
\* data with a null byte).
C15_FirstAcceptingIconWins ==
    [][ (/\ matched'.op \in MatchOps
         /\ KeyOf(matched') \notin
                DOMAIN tableCache[MapRead(matched'.op, matched'.directory)]) =>
            IF FirstFor(matched') # Null
            THEN matched'.ret = FirstFor(matched')
            ELSE \/ matched'.ret = Null
                 \/ matched'.op = "matchSignature" /\ HasNullByte(matched'.data) ]_vars

\* Two signatures accept the data; the icon first in bySignature was
\* returned, which is not the one first in the table.
C15_Witness ==
    /\ matched.op = "matchSignature"
    /\ matched.data = <<80, 75, 0>>
    /\ matched.ret = fileIcons.bySignature[1]
    /\ matched.ret.index = 4
    /\ Test(fileIcons.byName[4].signature, matched.data)

\* C16: after a match call with a key that no rule accepts, the map of that
\* kind holds an entry for the key.
C16_MissesAreCached ==
    (matched.op \in MatchOps /\ FirstFor(matched) = Null) =>
        KeyOf(matched) \in DOMAIN tableCache[MapOfKind(matched.op, matched.directory)]

\* C17: matchPath returns the first accepting icon of byPath (or null) and
\* matchName the first accepting icon of byName, whatever was looked up
\* before.
C17_NameAndPathLookupsApart ==
    matched.op \in {"matchName", "matchPath"} => matched.ret = FirstFor(matched)

\* C18: matchSignature returns the same icon (or null) when called again
\* with the same data, and stores the data in the signature map on the
\* first call and never again.
C18_SignatureStoredOnceOnFirstCall ==
    [][ matched'.op = "matchSignature" =>
            /\ matched'.data \in DOMAIN tableCache'.signature
            /\ matched'.data \in DOMAIN tableCache.signature =>
                  /\ tableCache' = tableCache
                  /\ matched'.ret = tableCache.signature[matched'.data]
            /\ (matched.op = "matchSignature" /\ matched.data = matched'.data) =>
                  matched'.ret = matched.ret ]_vars

\* C19: matchSignature returns the binary icon exactly when no signature
\* accepts the data and the data has a null byte; when a signature accepts
\* it returns that rule's icon, null byte or not; otherwise null.
C19_BinaryOnlyAfterTheScan ==
    matched.op = "matchSignature" =>
        /\ matched.ret = binaryIcon <=>
              (FirstFor(matched) = Null /\ HasNullByte(matched.data))
        /\ FirstFor(matched) # Null => matched.ret = FirstFor(matched)
        /\ (FirstFor(matched) = Null /\ ~HasNullByte(matched.data)) =>
              matched.ret = Null

\* Data with a null byte that no signature accepts got the binary icon.
C19_Witness ==
    /\ matched.op = "matchSignature"
    /\ HasNullByte(matched.data)
    /\ FirstFor(matched) = Null
    /\ matched.ret = binaryIcon
    /\ binaryIcon = fileIcons.byScope[2]

(***************************************************************************)
(* Claims about the hashbang strategy (checked under SpecHeader)           *)
(***************************************************************************)

\* The headers whose directive names zz, an interpreter of no rule.
UnmatchedDirective ==
    rsrc.data \in {String("#!/opt/zz\nx"), String("#!/b/env zz")}

\* n times the same element
Repeat(x, n) == [i \in 1..n |-> x]

Waiting(resource) ==
    {i \in 1..Len(resource.onStats) : resource.onStats[i].fired = 0}

\* C20: for a directive naming an interpreter of no rule, matchIcon returns
\* the executable icon if the resource is known to be executable; returns
\* null and registers nothing if it is known not to be; and if that is not
\* known yet returns null, adds no icon and registers one stat-load
\* listener. A listener runs at most once, and adds the executable icon at
\* the strategy's priority exactly if the resource is executable when the
\* stats arrive.
C20_ExecutableFallbackWaitsForStats ==
    /\ [][ (asked'.op = "matchIcon" /\ UnmatchedDirective) =>
               IF rsrc.executable = Null
               THEN /\ asked'.ret = Null
                    /\ rsrc'.icon = rsrc.icon
                    /\ rsrc'.onStats = Append(rsrc.onStats, Listener)
               ELSE /\ rsrc' = rsrc
                    /\ asked'.ret = IF rsrc.executable = Boolean(TRUE)
                                    THEN executableIcon ELSE Null ]_vars
    /\ [](\A i \in 1..Len(rsrc.onStats) : rsrc.onStats[i].fired <= 1)
    /\ [][ asked'.op = "didLoadStats" =>
               /\ Waiting(rsrc') = {}
               /\ rsrc'.icon = rsrc.icon \o
                     (IF asked'.ret = Boolean(TRUE)
                      THEN Repeat([icon |-> executableIcon,
                                   priority |-> HashbangStrategy.priority],
                                  Cardinality(Waiting(rsrc)))
                      ELSE <<>>) ]_vars

\* The stats said executable and the listener registered for the directive
\* added the executable icon, once, after an earlier matchIcon returned null.
C20_Witness ==
    /\ UnmatchedDirective
    /\ asked.op = "didLoadStats"
    /\ asked.ret = Boolean(TRUE)
    /\ Len(rsrc.onStats) = 1
    /\ rsrc.onStats[1] = [disposed |-> TRUE, fired |-> 1]
    /\ rsrc.icon = <<[icon |-> executableIcon, priority |-> 5]>>
    /\ executableIcon # Null

\* The headers whose directive resolves to node, named directly or as the
\* argument of env, and the names that end in .ts or .tsx.
NodeDirective == rsrc.data \in {String("#!/b/env node"), String("#!/b/node")}
TypeScriptNames == {"a.TS", "b.tsx"}

\* C21: for a directive that resolves to node, matchIcon returns null and
\* registers no listener when the resource's name ends in .ts or .tsx,
\* whether the executable bit is unknown, set or clear; for any other name it
\* returns the first icon of the interpreter index that accepts node and
\* leaves the resource as it was.
C21_NodeOnTypeScriptDeferred ==
    [][ (asked'.op = "matchIcon" /\ NodeDirective) =>
            /\ rsrc' = rsrc
            /\ asked'.ret = IF rsrc.name \in TypeScriptNames THEN Null
                            ELSE FirstOfIndex("matchInterpreter", FALSE, "node") ]_vars

\* An executable resource named a.TS with a node directive was asked about
\* and got nothing, and no listener was registered.
C21_Witness ==
    /\ NodeDirective
    /\ rsrc.name = "a.TS"
    /\ rsrc.executable = Boolean(TRUE)
    /\ asked.op = "matchIcon"
    /\ asked.ret = Null
    /\ rsrc.onStats = <<>>
    /\ FirstOfIndex("matchInterpreter", FALSE, "node") # Null

\* C23: when the stats arrive while the strategy is disabled, every
\* listener still registered runs: it is disposed of, and the executable
\* icon is added for each exactly if the resource is executable.
C23_DisablingKeepsPendingListeners ==
    [][ (asked'.op = "didLoadStats" /\ ~enabled["hashbangs"]) =>
            /\ Waiting(rsrc') = {}
            /\ \A i \in 1..Len(rsrc'.onStats) : rsrc'.onStats[i].disposed
            /\ Len(rsrc'.icon) = Len(rsrc.icon) +
                  (IF asked'.ret = Boolean(TRUE) THEN Cardinality(Waiting(rsrc)) ELSE 0)
            /\ \A k \in (Len(rsrc.icon) + 1)..Len(rsrc'.icon) :
                  rsrc'.icon[k] = [icon |-> executableIcon,
                                   priority |-> HashbangStrategy.priority] ]_vars

\* The listener was registered while the strategy was enabled; the strategy
\* was then disabled, the stats said executable, and the icon was added.
C23_Witness ==
    /\ ~enabled["hashbangs"]
    /\ asked.op = "didLoadStats"
    /\ asked.ret = Boolean(TRUE)
    /\ Len(rsrc.onStats) = 1
    /\ rsrc.onStats[1] = [disposed |-> TRUE, fired |-> 1]
    /\ rsrc.icon = <<[icon |-> executableIcon, priority |-> 5]>>

\* The listeners of the resource that are still registered.
Pending(resource) ==
    {i \in 1..Len(resource.onStats) : ~resource.onStats[i].disposed}

\* C29: a resource has at most one stat-load listener of the strategy
\* registered at any time, and one arrival of the stats adds at most one icon.
C29_OnePendingListenerPerResource ==
    /\ [](Cardinality(Pending(rsrc)) <= 1)
    /\ [][ asked'.op = "didLoadStats" => Len(rsrc'.icon) <= Len(rsrc.icon) + 1 ]_vars

(***************************************************************************)
(* Claims about the modeline strategy (checked under SpecModeline)         *)
(***************************************************************************)

\* What the first line says, read off the line itself: the mode of its
\* Emacs directive and the filetype of its Vim modeline (None if absent).
EmacsMode(data) ==
    CASE data = String("-*- mode: fundamental -*-") -> "fundamental"
      [] data = String("-*- mode: Shell -*-") -> "Shell"
      [] data = String("-*- mode: zz -*-") -> "zz"
      [] data = String("-*- Assembly -*-") -> "Assembly"
      [] data = String("-*- mode: fundamental -*- vim: ft=Shell") -> "fundamental"
      [] OTHER -> None

VimFiletype(data) ==
    CASE data = String("-*- mode: fundamental -*- vim: ft=Shell") -> "Shell"
      [] data = String("vim: ft=Assembly") -> "Assembly"
      [] OTHER -> None

AskedModeline == asked.op = "modelines.matchIcon"

\* C22 as stated: a first line whose Emacs directive names the mode
\* fundamental gets null from the modeline strategy, and a directive naming
\* another mode gets the first icon of the language index that accepts the
\* mode (null if none does).
C22_FundamentalYieldsNothing ==
    (AskedModeline /\ EmacsMode(rsrc.data) # None) =>
        asked.ret = IF EmacsMode(rsrc.data) = "fundamental" THEN Null
                    ELSE FirstOfIndex("matchLanguage", FALSE, EmacsMode(rsrc.data))

\* C22 amended: a directive for the mode fundamental gets null unless the
\* line also has a Vim modeline, whose filetype is then looked up in the
\* language index; a directive naming another mode gets the first icon of
\* the language index that accepts the mode (null if none does), whatever
\* else the line holds.
C22_FundamentalLeavesVimModeline ==
    (AskedModeline /\ EmacsMode(rsrc.data) # None) =>
        asked.ret =
            IF EmacsMode(rsrc.data) # "fundamental"
            THEN FirstOfIndex("matchLanguage", FALSE, EmacsMode(rsrc.data))
            ELSE IF VimFiletype(rsrc.data) # None
            THEN FirstOfIndex("matchLanguage", FALSE, VimFiletype(rsrc.data))
            ELSE Null

\* The line -*- mode: fundamental -*- got null, although the language
\* index has icons for other modes.
C22_Witness ==
    /\ AskedModeline
    /\ rsrc.data = String("-*- mode: fundamental -*-")
    /\ asked.ret = Null
    /\ FirstOfIndex("matchLanguage", FALSE, "Shell") # Null

(***************************************************************************)
(* Claims about the package (checked under SpecService and SpecPackage)    *)
(***************************************************************************)

\* The errors a call can raise.
Errors == {TypeError, ReferenceError}

\* C24: addIconToElement called without a path, with an empty path, or
\* with a target that is no element of the document (a jQuery object, null,
\* undefined) raises nothing, registers no icon for the target and returns
\* a disposable without an action.
C24_InvalidInputGetsNoopDisposable ==
    (/\ api.op = "addIconToElement"
     /\ ~Truthy(api.arg.path) \/ api.arg.element # Div) =>
        /\ api.ret = NoopDisposable
        /\ FileIcons.iconsByElement # Undefined =>
               api.arg.element \notin DOMAIN FileIcons.iconsByElement.entries

\* A step of resetCache: of the steps that leave the package object and the
\* record of the storage's last call alone, the only one that is not a
\* stuttering step.
ResetStep ==
    /\ api'.op = "resetCache"
    /\ FileIcons' = FileIcons
    /\ call' = call
    /\ Truthy(FileIcons.storage)

\* C25: resetCache on an unlocked storage raises nothing and leaves the
\* storage without cached paths; on a locked storage it changes no entry
\* and returns an error notification.
C25_ResetCacheWipes ==
    [][ ResetStep =>
            IF locked
            THEN /\ api'.ret = Notification("error")
                 /\ paths' = paths
            ELSE /\ api'.ret \notin Errors
                 /\ size(paths') = 0 ]_vars

\* Where deactivate stands once it has locked the storage, until the next
\* activation constructs another Storage.
ShuttingDown == FileIcons.pc \in {"disposing", "emitting", "raised", "deactivated"}

\* C26: from the first statements of deactivate on, through the disposal
\* of the subscriptions and the emission of did-destroy and until another
\* Storage replaces this one, the storage is locked; the flag is not
\* cleared on a storage; and while the storage is locked no call adds,
\* changes or removes an entry.
C26_LockedThroughShutdown ==
    /\ []((ShuttingDown /\ Truthy(FileIcons.storage)) => locked)
    /\ []((/\ Truthy(FileIcons.storage)
           /\ FileIcons.disposables = Null \/ FileIcons.emitter = Null) => locked)
    /\ [][ (locked /\ ~locked') => (call'.op = "new Storage" /\ ShuttingDown) ]_vars
    /\ [][ (locked /\ locked') => Entries(paths') = Entries(paths) ]_vars

\* During deactivate, after the subscriptions were disposed of, a callback
\* asked the storage to store an icon for a path it did not hold, and the
\* storage, which held an entry, stayed as it was.
C26_Witness ==
    /\ FileIcons.pc = "emitting"
    /\ locked
    /\ call.op = "setPathIcon"
    /\ call.before = Undefined
    /\ call.path \notin Keys(paths)
    /\ paths # <<>>

NoHoles(seq) == \A i \in 1..Len(seq) : seq[i] # Hole

Count(seq, s) == Cardinality({i \in 1..Len(seq) : seq[i] = s})

\* C28: every strategy that declares matchesFiles is in the file list
\* exactly once, and every one that declares matchesDirs in the directory
\* list exactly once.
C28_EveryStrategyListedOnce ==
    \A s \in Strategies :
        /\ declared[s].matchesFiles => Count(fileStrategies, s) = 1
        /\ declared[s].matchesDirs => Count(directoryStrategies, s) = 1

\* C30: deletePathIcon on a path without an entry leaves the map as it
\* was; on a path with an entry it leaves the entry in the map with its
\* inode and without an icon; in both cases no other path leaves the map.
C30_DeletePathIconOnlyClearsIcon ==
    call.op = "deletePathIcon" =>
        /\ call.dropped = {}
        /\ call.before = Undefined => call.path \notin Keys(paths)
        /\ call.before # Undefined =>
              /\ call.path \in Keys(paths)
              /\ LRUPeek(paths, call.path).inode = call.before.inode
              /\ locked \/ ~Truthy(LRUPeek(paths, call.path).icon)

(***************************************************************************)
(* Claims about the nodes (checked under SpecNode)                         *)
(***************************************************************************)

\* The classes the node put on the element and that are on it still.
Remaining == drawn.by \cap classList

Destroyed == node # Undefined /\ node.destroyed

\* A destroyed node has left none of its classes on the element.
DestroyedLeavesNoClasses == Destroyed => Remaining = {}

\* The element of a destroyed node has no entry in iconsByElement.
DestroyedIsUnmapped ==
    Destroyed => Div \notin DOMAIN FileIcons.iconsByElement.entries

\* A live node that is not visible has none of its classes on the element.
HiddenShowsNoClasses ==
    (node # Undefined /\ ~node.destroyed /\ ~node.visible) => Remaining = {}

\* destroy() on a destroyed node changes neither the node, nor the element,
\* nor the map.
SecondDestroyHasNoEffect ==
    [][(drawn'.op = "destroy" /\ drawn'.arg = Boolean(TRUE))
          => (node' = node /\ classList' = classList /\ FileIcons' = FileIcons)]_vars

\* C31: once a node is destroyed, none of the icon classes it applied are
\* on its element and the element has no entry in iconsByElement; and while
\* a node is alive and not visible, no class it applied is on the element.
C31_DestroyedNodeLeavesNothing ==
    /\ DestroyedLeavesNoClasses
    /\ DestroyedIsUnmapped
    /\ HiddenShowsNoClasses

====
